---- MODULE Spec2Model ----
(***************************************************************************)
(* Model of the yucodev/juan repository: the chat bot's message responder  *)
(* (juan.py) and the pure routines of the bundled mathpy library           *)
(* (combinatorics/binomial.py, numtheory/gcd.py).                          *)
(*                                                                         *)
(* Python strings are TLA+ strings (TLC evaluates Len, SubSeq and \o on    *)
(* them); Python floats are exact rationals <<num, den>> in lowest terms.  *)
(***************************************************************************)
EXTENDS Integers, Sequences, FiniteSets, TLC

VARIABLES
    message,    \* juan.py: the message on_message handled last
    sent,       \* juan.py: the channel sends made while handling it
    outcome,    \* juan.py: how the handler ended
    handled,    \* juan.py: number of messages handled so far
    call,       \* mathpy: the library call under way, function and arguments
    frame,      \* mathpy: its position and local variables
    ret         \* mathpy: what it returned or raised

vars == <<message, sent, outcome, handled, call, frame, ret>>
botvars == <<message, sent, outcome, handled>>
libvars == <<call, frame, ret>>

(***************************************************************************)
(* Bounds of the model.                                                    *)
(***************************************************************************)
\* number of messages one behaviour delivers to the bot
MaxMessages == 2
\* largest n and k given to binom_coeff
MaxN == 5
\* largest absolute value of the arguments of gcd
MaxG == 6
\* largest absolute value of the arguments of gcd_extended
MaxE == 6

(***************************************************************************)
(* juan.py: strings                                                        *)
(***************************************************************************)
Upper == "ABCDEFGHIJKLMNOPQRSTUVWXYZÑ"
LowerLetters == "abcdefghijklmnopqrstuvwxyzñ"

\* str.lower() on one character
LowerChar(ch) ==
    IF \E i \in 1..Len(Upper) : SubSeq(Upper, i, i) = ch
    THEN LET i == CHOOSE j \in 1..Len(Upper) : SubSeq(Upper, j, j) = ch
         IN  SubSeq(LowerLetters, i, i)
    ELSE ch

RECURSIVE lower(_)
\* str.lower(): every character lower-cased (the string is split in halves
\* to keep the evaluation shallow)
lower(s) ==
    IF Len(s) = 0 THEN ""
    ELSE IF Len(s) = 1 THEN LowerChar(s)
    ELSE LET h == Len(s) \div 2
         IN  lower(SubSeq(s, 1, h)) \o lower(SubSeq(s, h + 1, Len(s)))

\* str.startswith(prefix)
startswith(s, prefix) ==
    Len(prefix) <= Len(s) /\ SubSeq(s, 1, Len(prefix)) = prefix

\* `sub in s` for two strings
contains(s, sub) ==
    \E i \in 1..(Len(s) + 1) :
        i + Len(sub) - 1 <= Len(s) /\ SubSeq(s, i, i + Len(sub) - 1) = sub

\* the replacement field used by the greeting templates
Placeholder == "{0.author.mention}"

\* the positions at which sub occurs in s
Occurrences(s, sub) ==
    {i \in 1..Len(s) : i + Len(sub) - 1 <= Len(s) /\ SubSeq(s, i, i + Len(sub) - 1) = sub}

\* the template sent as it is, the replacement field not filled in
format_nosubst(t, m) == t

RECURSIVE format(_, _)
\* template.format(message): every occurrence of the replacement field
\* {0.author.mention} is replaced by message.author.mention, the text
\* around it is kept
format(t, m) ==
    IF Occurrences(t, Placeholder) = {} THEN t
    ELSE LET occ == Occurrences(t, Placeholder)
             i == CHOOSE j \in occ : \A k \in occ : j <= k
         IN  SubSeq(t, 1, i - 1) \o m.author.mention
                 \o format(SubSeq(t, i + Len(Placeholder), Len(t)), m)

(***************************************************************************)
(* juan.py: the if/elif chain of on_message.  Each entry is one branch, in *)
(* source order: its test (the kind of condition and its phrases) and its  *)
(* reply (how msg is built).                                               *)
(*   in_list      content.lower() in [phrases]                             *)
(*   tuple_in     (phrases) in content.lower(): a tuple as the left        *)
(*                operand of `in` on a str raises TypeError                *)
(*   str_in       ('PHRASE') in content.lower(): a parenthesised string,   *)
(*                an ordinary substring test                               *)
(*   yes_no       startswith('yes or no') or 'should' in ... or            *)
(*                startswith('!yn')                                        *)
(*   starts_any   content.lower().startswith((phrases))                    *)
(***************************************************************************)
Branches == <<
    [test |-> "in_list", phrases |-> <<"hi", "hola", "hello">>,
     reply |-> "choice_format",
     answers |-> <<"Hello {0.author.mention} welcome man, cómo andás my friend?",
                   "Hola, {0.author.mention}, how you doing!",
                   "Nice to meet you {0.author.mention}">>],
    [test |-> "in_list", phrases |-> <<"help", "ayuda">>,
     reply |-> "choice_format",
     answers |-> <<"Let me check with that level and come back to you, amigo!",
                   "how can i help you, my friend?",
                   "well, i'm a horse, not sure if i can do more than a human",
                   "callate hay gente en africa mucho peor que tu, seguro que tu problema no es tan importante">>],
    [test |-> "in_list",
     phrases |-> <<"random advice", "tell me something", "what should i do", "dime algo",
                   "un consejo", "cuentame algo", "no se que hacer", "i don't know what to do">>,
     reply |-> "choice_format",
     answers |-> <<"Eat tacos and be happy!",
                   "Horses are nice, i love horses and you should too, compadre",
                   "study more, do some exercise and that stuff",
                   "burritos are the best, buddy",
                   "aw sh*t, here we go again...",
                   "reject modernity, embrace juanismo",
                   "live and let day, man",
                   "yo no sé qué quieres que te diga solo soy juan",
                   "no te comas esa burguer",
                   "you should always unplug the roaster, trust me">>],
    [test |-> "tuple_in", phrases |-> <<"language", "speak", "idioma">>,
     reply |-> "choice_format",
     answers |-> <<"English, español, a bit of french, some german... But yeah, you know, I'm Juan, so mainly Spanglish.">>],
    [test |-> "tuple_in", phrases |-> <<"nadie te preguntó", "who asked you", "shut up", "pesado">>,
     reply |-> "choice_format",
     answers |-> <<"tampoco hace falta insultar eh",
                   "hey I'm a horse, be patient",
                   "I guess if you were a horse, you coudn't be as smart as I am",
                   "God sent me!#RESPECT bruh">>],
    [test |-> "tuple_in", phrases |-> <<"vote", "trump or biden", "biden or trump">>,
     reply |-> "choice_format",
     answers |-> <<"If I told you I would be removed from the server",
                   "American Communist Party, cause I just wanted free stuff, like... you know... an iPhone 12 and my daily Starbucks #BLM coffee cup",
                   "National Sociaanswers Movement, but please, dont tell my mom :)",
                   "#BidenHarris2020... because I like kids. I don't know who will be the VP after Joe... you know...",
                   "I'm a horse and my name is juan, so #LatinosForTrump obviously, RIGGED ELECTION!!!!!!! STOP THE COUNT!!!!!",
                   "Green Party, like (weed) my meals... #ClimateActionNow!",
                   "Jo Jorgensen (L), horses dont deserve taxes nor obligations TAXATION IS THEFT!! END THE WAR ON DRUGS!! GUNS FOR EVERYONE!!",
                   "*political compass memes intensify*Juanist Horse's Party, the best party, amigo!Falange Española Cabalanswersa de las Juntas de Ofensiva Nacional-Juanistas">>],
    [test |-> "tuple_in", phrases |-> <<"ok", "sure", "alright">>,
     reply |-> "choice_format",
     answers |-> <<"ok", "sure", "right", "juanismo">>],
    [test |-> "tuple_in", phrases |-> <<"not bad", "better than expected">>,
     reply |-> "choice_format",
     answers |-> <<"not bad at all buddy",
                   "I told you!",
                   "I'm the best my friend!",
                   "Soy un caballo qué esperabas compadre?">>],
    [test |-> "str_in", phrases |-> <<"LGBT">>,
     reply |-> "choice_format",
     answers |-> <<"Sorry, I only know about the Large Goats Beating Trees Association, next to my field. They're nice goats">>],
    [test |-> "str_in", phrases |-> <<"QAnon">>,
     reply |-> "choice_format",
     answers |-> <<"Horses don't have conspiracy theories, so idk what to say, man">>],
    [test |-> "tuple_in", phrases |-> <<"who are you", "your name">>,
     reply |-> "choice_format",
     answers |-> <<"My name is Juan Benito and I'm a horse",
                   "Mi nombre es Juan Benito y soy un caballo",
                   "Sometimes I can be a bit annoying, I know, but I'm Juan, you know...A veces puedo ser un poco pesado, lo sé, pero soy JuanI won't tell you hahaI don't know who created me, am I someone?">>],
    [test |-> "in_list", phrases |-> <<"random number", "random number 10", "1 to 10">>,
     reply |-> "randint", high |-> 10],
    [test |-> "in_list", phrases |-> <<"random number 100", "1 to 100">>,
     reply |-> "randint", high |-> 100],
    [test |-> "tuple_in", phrases |-> <<"random percentage", "percentage", "odds", "likely">>,
     reply |-> "percentage"],
    [test |-> "in_list", phrases |-> <<"random number 1000", "1 to 1000">>,
     reply |-> "randint", high |-> 1000],
    [test |-> "yes_no", phrases |-> <<"yes or no", "should", "!yn">>,
     reply |-> "choice", answers |-> <<"YES", "NO">>],
    [test |-> "in_list", phrases |-> <<"juan">>,
     reply |-> "choice_format",
     answers |-> <<"https://i1.kym-cdn.com/entries/icons/original/000/012/837/31947478577132381_uISnEynS_f.jpg",
                   "https://i3.kym-cdn.com/photos/images/original/000/546/384/342.png",
                   "https://www.thepubliceditor.com/wp-content/uploads/2017/09/Hispanica_Dons_Juan_Meme_05.jpg",
                   "https://i.ytimg.com/vi/t5hIhRRc1mQ/hqdefault.jpg",
                   "https://i3.kym-cdn.com/photos/images/newsfeed/000/527/379/2fc.jpg",
                   "https://s2.quickmeme.com/img/b2/b22e3d52b3480cd345c51b956bbfa3e879b7ba99034561ddcb34a6d9a436369d.jpg",
                   "https://sayingimages.com/wp-content/uploads/juan-does-not-simply-burrito-meme.png",
                   "https://pics.onsizzle.com/juan-small-step-for-man-mexican-word-ay-comte-juan-2867786.png",
                   "https://pics.onsizzle.com/i-hate-tacos-said-no-juan-ever-16074307.png",
                   "https://www.memecreator.org/static/images/memes/3861823.jpg",
                   "https://i.imgflip.com/ve0m1.jpg",
                   "https://i.ytimg.com/vi/SFvuAq2upO4/maxresdefault.jpg",
                   "https://www.funnybeing.com/wp-content/uploads/2017/05/May-The-Horse-Be-With-You.jpg",
                   "https://img.memecdn.com/xbox-juan_o_1541015.jpg",
                   "http://memecrunch.com/meme/9QYA/juan-hundred-and-juan-dalmatians/image.jpg?w=1024&c=1">>],
    [test |-> "in_list", phrases |-> <<"viva españa", "viva espana">>,
     reply |-> "choice_format",
     answers |-> <<"No results found for \"Viva España\". Did you mean \":flag_es: ARRIBA ESPAÑA :flag_es:\" ?">>],
    [test |-> "in_list",
     phrases |-> <<"arriba españa", "arriba espana", "una, grande y libre", "una grande libre",
                   "una grande y libre", "dios patria rey">>,
     reply |-> "choice_format",
     answers |-> <<"https://finofilipino.org/wp-content/uploads/2020/07/CPmkeAcWwAAo-eF.jpg">>],
    [test |-> "starts_any", phrases |-> <<"how are you", "are you ok">>,
     reply |-> "choice_format",
     answers |-> <<"Doing great!", "Just fine", "Feeling awesome!", "Mejor que nunca compadre!">>]
>>

\* position in Branches of the 'juan' branch
JuanBranch == 17

\* the value of the condition of branch i on a message content: "True",
\* "False", or "TypeError" when evaluating it raises
TestBranch(i, content) ==
    LET b == Branches[i]
        c == lower(content)
    IN  CASE b.test = "in_list" ->
               IF \E j \in 1..Len(b.phrases) : c = b.phrases[j] THEN "True" ELSE "False"
          [] b.test = "tuple_in" -> "TypeError"
          [] b.test = "str_in" -> IF contains(c, b.phrases[1]) THEN "True" ELSE "False"
          [] b.test = "yes_no" ->
               IF \/ startswith(c, "yes or no")
                  \/ contains(c, "should")
                  \/ startswith(c, "!yn")
               THEN "True" ELSE "False"
          [] b.test = "starts_any" ->
               IF \E j \in 1..Len(b.phrases) : startswith(c, b.phrases[j])
               THEN "True" ELSE "False"

RECURSIVE Dispatch(_, _)
\* the if/elif chain from branch i on: the first branch whose condition is
\* true is taken; a condition that raises ends the handler; after the last
\* branch the handler falls off its end
Dispatch(i, content) ==
    IF i > Len(Branches) THEN [kind |-> "nomatch"]
    ELSE LET t == TestBranch(i, content)
         IN  CASE t = "True" -> [kind |-> "match", branch |-> i]
               [] t = "TypeError" -> [kind |-> "raise", branch |-> i, exc |-> "TypeError"]
               [] t = "False" -> Dispatch(i + 1, content)

\* the values msg can take in branch i: random.choice(answers).format(message),
\* answers[random.randint(0, 1)], random.randint(0, high), or the percentage
\* str(round(random.uniform(0, 100), 2)) + '%' (kept as hundredths)
Replies(i, m) ==
    LET b == Branches[i]
    IN  CASE b.reply = "choice_format" ->
               {format(b.answers[j], m) : j \in 1..Len(b.answers)}
          [] b.reply = "choice" -> {b.answers[j] : j \in 1..Len(b.answers)}
          [] b.reply = "randint" -> 0..b.high
          [] b.reply = "percentage" ->
               {[hundredths |-> h, suffix |-> "%"] : h \in 0..10000}

(***************************************************************************)
(* juan.py: the messages the gateway delivers                              *)
(***************************************************************************)
\* client.user.id, the bot's own user id
ClientUserId == 700

\* the authors of incoming messages: the bot itself and two other users;
\* mention is the user's mention string
Authors == {[id |-> ClientUserId, mention |-> "<@700>"],
            [id |-> 201, mention |-> "<@201>"],
            [id |-> 202, mention |-> "<@202>"]}

Channels == {"general", "random"}

Contents == {"hi", "HI", "Hola", "hello", "hi there", "help", "Ayuda",
             "what should i do", "What Should I Do", "should", "i should go",
             "juan", "JUAN", "Juan", "xyz123", "", "language", "ok",
             "1 to 10", "yes or no", "how are you", "how are you should",
             "LGBT", "viva españa"}

Messages == [author : Authors, content : Contents, channel : Channels]

NoMessage == [author |-> [id |-> -1, mention |-> ""], content |-> "", channel |-> ""]

\* the guard left out: no message is taken for the bot's own
IsSelf_never(m) == FALSE

\* the guard of on_message: the message was written by the bot itself
IsSelf(m) == m.author.id = ClientUserId

(***************************************************************************)
(* juan.py: on_message, the whole handler for one message.  sent is the    *)
(* sequence of message.channel.send calls it made, outcome how it ended:   *)
(* "returned", or the name of the exception that left it.                  *)
(***************************************************************************)
on_message(m) ==
    /\ handled < MaxMessages
    /\ message' = m
    /\ handled' = handled + 1
    /\ UNCHANGED libvars
    /\ IF IsSelf(m)
       THEN /\ sent' = <<>>
            /\ outcome' = "returned"
       ELSE LET d == Dispatch(1, m.content)
            IN  CASE d.kind = "match" ->
                       \E msg \in Replies(d.branch, m) :
                           /\ sent' = <<[channel |-> m.channel, msg |-> msg]>>
                           /\ outcome' = "returned"
                  [] d.kind = "raise" ->
                       /\ sent' = <<>>
                       /\ outcome' = d.exc
                  [] d.kind = "nomatch" ->
                       /\ sent' = <<>>
                       /\ outcome' = "returned"

\* no library call is under way
NoCall == [fn |-> "none"]
NoFrame == [pc |-> "none"]
NoRet == [kind |-> "none"]

BotInit ==
    /\ message = NoMessage
    /\ sent = <<>>
    /\ outcome = "idle"
    /\ handled = 0

Init ==
    /\ BotInit
    /\ call = NoCall
    /\ frame = NoFrame
    /\ ret = NoRet

Next == \E m \in Messages : on_message(m)

Spec == Init /\ [][Next]_vars

(***************************************************************************)
(* Properties of on_message                                                *)
(***************************************************************************)
\* a message has been handled
Handled == outcome # "idle"

\* C1: a message whose author id is the bot's own user id makes on_message
\* send nothing, whatever its content (a trigger phrase included)
C1_SelfMessageSendsNothing ==
    (Handled /\ message.author.id = ClientUserId) => sent = <<>>

\* the bot has handled its own message "hi", a trigger phrase
C1_Witness ==
    /\ Handled
    /\ message.author.id = ClientUserId
    /\ message.content = "hi"
    /\ outcome = "returned"

\* the three greetings with the author's mention in place of the placeholder
Greetings(m) ==
    {"Hello " \o m.author.mention \o " welcome man, cómo andás my friend?",
     "Hola, " \o m.author.mention \o ", how you doing!",
     "Nice to meet you " \o m.author.mention}

\* C2: for a message of another author whose lower-cased content is "hi",
\* "hola" or "hello", on_message sends exactly one message, to the channel
\* of the message, and it is one of the three greetings with the author's
\* mention substituted
C2_GreetingSent ==
    (/\ Handled
     /\ message.author.id # ClientUserId
     /\ lower(message.content) \in {"hi", "hola", "hello"})
    => /\ Len(sent) = 1
       /\ sent[1].channel = message.channel
       /\ sent[1].msg \in Greetings(message)

\* user 201 wrote "Hola" in #random and was greeted there with the second greeting
C2_Witness ==
    /\ Handled
    /\ message.author.id = 201
    /\ message.content = "Hola"
    /\ message.channel = "random"
    /\ sent = <<[channel |-> "random", msg |-> "Hola, <@201>, how you doing!"]>>

\* the 15 image URLs of the 'juan' branch
JuanUrls == {Branches[JuanBranch].answers[j] : j \in 1..Len(Branches[JuanBranch].answers)}

\* C3: for a message of another author whose content is "juan" in any
\* letter case, on_message sends exactly one message, to the channel of the
\* message, and it is one of the 15 image URLs
C3_JuanImageSent ==
    (/\ Handled
     /\ message.author.id # ClientUserId
     /\ lower(message.content) = "juan")
    => /\ Len(sent) = 1
       /\ sent[1].channel = message.channel
       /\ sent[1].msg \in JuanUrls
       /\ Cardinality(JuanUrls) = 15

\* the conditions of the chain that hold of a content, each taken alone
Satisfied(content) == {i \in 1..Len(Branches) : TestBranch(i, content) = "True"}

\* C4: for a message of another author whose content matches no trigger,
\* on_message sends nothing and returns normally
C4_NoMatchSilent ==
    (/\ Handled
     /\ message.author.id # ClientUserId
     /\ Satisfied(message.content) = {})
    => /\ sent = <<>>
       /\ outcome = "returned"

\* the least element of a non-empty set of branch positions
Earliest(S) == CHOOSE i \in S : \A j \in S : i <= j

\* C5: on_message sends at most once per message, and when the content
\* satisfies more than one trigger the reply is one of the responses of
\* the trigger tested first
C5_FirstMatchWins ==
    Handled =>
        /\ Len(sent) <= 1
        /\ (/\ message.author.id # ClientUserId
            /\ Cardinality(Satisfied(message.content)) > 1)
           => /\ Len(sent) = 1
              /\ sent[1].msg \in Replies(Earliest(Satisfied(message.content)), message)

(***************************************************************************)
(* Exact rational arithmetic for the float computations of mathpy: a       *)
(* value is <<numerator, denominator>> in lowest terms, denominator > 0.   *)
(***************************************************************************)
Abs(x) == IF x < 0 THEN -x ELSE x

\* (the singleton sets below make TLC compute an argument once, before it
\* is used, wherever the operator is evaluated)
RECURSIVE NatGcd(_, _)
NatGcd(x, y) ==
    IF y = 0 THEN x ELSE CHOOSE g \in {NatGcd(y, r) : r \in {x % y}} : TRUE

\* num/den (den # 0) in lowest terms with a positive denominator
LowestTerms(num, den) ==
    LET g == NatGcd(Abs(num), Abs(den))
        sgn == IF den < 0 THEN -1 ELSE 1
    IN  <<sgn * (num \div g), sgn * (den \div g)>>

\* the rational num/den (den # 0) in lowest terms
Rat(num, den) == CHOOSE r \in {LowestTerms(n, d) : n \in {num}, d \in {den}} : TRUE

RatMul(x, y) == Rat(x[1] * y[1], x[2] * y[2])

(***************************************************************************)
(* mathpy/combinatorics/factorial.py and binomial.py                       *)
(***************************************************************************)
RECURSIVE FactorialLoop(_, _)
\* the loop of factorial: f = f * i for i = n, n-1, ..., 1
FactorialLoop(i, f) == IF i < 1 THEN f ELSE FactorialLoop(i - 1, f * i)

\* factorial(n) for an integer n <= 100: the product over arange(1, n + 1),
\* which is empty for n < 1
factorial(n) == FactorialLoop(n, 1)

\* the check of BinomialCoefficient.__init__: it raises ValueError
BinomialCoefficient_invalid(n, k) == k < 0 \/ n <= 0 \/ k > n

RECURSIVE binomial_recursive(_, _)
\* BinomialCoefficient.binomial_recursive
binomial_recursive(n, k) ==
    IF k = n \/ k = 0 THEN 1
    ELSE binomial_recursive(n - 1, k - 1) + binomial_recursive(n - 1, k)

RECURSIVE MultiplicativeLoop_offbyone(_, _, _, _)
\* the loop with the factor (n - j) / j in place of (n + 1 - j) / j
MultiplicativeLoop_offbyone(n, left, j, bico) ==
    IF left <= 0 THEN bico
    ELSE MultiplicativeLoop_offbyone(n, left - 1, j + 1, RatMul(bico, Rat(n - j, j)))

RECURSIVE MultiplicativeLoop(_, _, _, _)
\* the loop of binomial_multiplicative: left more iterations, the next one
\* with counter j and running product bico
MultiplicativeLoop(n, left, j, bico) ==
    IF left <= 0 THEN bico
    ELSE MultiplicativeLoop(n, left - 1, j + 1, RatMul(bico, Rat(n + 1 - j, j)))

\* BinomialCoefficient.binomial_multiplicative, for self.n = n, self.k = k
binomial_multiplicative(n, k) ==
    LET nk == IF n <= n - k THEN n ELSE n - k
    IN  MultiplicativeLoop(n, nk, 1, <<1, 1>>)

\* BinomialCoefficient.binomial_factorial, for self.n = n, self.k = k and
\* nk < 100 (the float quotient; the Decimal branch needs nk >= 100)
binomial_factorial(n, k) ==
    LET nk == IF n <= n - k THEN n ELSE n - k
    IN  Rat(factorial(n), factorial(k) * factorial(nk))

\* the dictionary binom_method of binom_coeff
binom_method ==
    [recursive |-> "binomial_recursive",
     multiplicative |-> "binomial_multiplicative",
     factorial |-> "binomial_factorial"]

\* the method name a missing key falls back to instead of raising
LookupWithDefault(method) ==
    IF method \in DOMAIN binom_method THEN binom_method[method]
    ELSE "binomial_multiplicative"

\* binom_method[method]: the name of the bound method, or KeyError
Lookup(method) ==
    IF method \in DOMAIN binom_method THEN binom_method[method] ELSE "KeyError"

\* the method argument left out
None == "None"

Value(v) == [kind |-> "value", value |-> v]
Raise(e) == [kind |-> "raise", exc |-> e]

\* binom_coeff with the method looked up before the arguments are checked
binom_coeff_lookup_first(n, k, method) ==
    IF k = 0 THEN Value(<<1, 1>>)
    ELSE IF method # None /\ Lookup(method) = "KeyError" THEN Raise("KeyError")
    ELSE IF BinomialCoefficient_invalid(n, k) THEN Raise("ValueError")
    ELSE LET f == IF method = None THEN "binomial_multiplicative" ELSE Lookup(method)
         IN  CASE f = "binomial_recursive" -> Value(<<binomial_recursive(n, k), 1>>)
               [] f = "binomial_multiplicative" -> Value(binomial_multiplicative(n, k))
               [] f = "binomial_factorial" -> Value(binomial_factorial(n, k))

\* binom_coeff(n, k, method): the value returned or the exception raised
binom_coeff(n, k, method) ==
    IF k = 0 THEN Value(<<1, 1>>)
    ELSE IF BinomialCoefficient_invalid(n, k) THEN Raise("ValueError")
    ELSE LET f == IF method = None THEN "binomial_multiplicative" ELSE Lookup(method)
         IN  CASE f = "KeyError" -> Raise("KeyError")
               [] f = "binomial_recursive" -> Value(<<binomial_recursive(n, k), 1>>)
               [] f = "binomial_multiplicative" -> Value(binomial_multiplicative(n, k))
               [] f = "binomial_factorial" -> Value(binomial_factorial(n, k))

\* the calls of binom_coeff that are tried
BinomMethods == {None, "recursive", "multiplicative", "factorial", "NA_METHOD",
                 "binomial_recursive"}
BinomCalls ==
    [fn : {"binom_coeff"}, n : (-2)..MaxN, k : (-3)..(MaxN + 1), method : BinomMethods]

BinomInit ==
    /\ BotInit
    /\ call \in BinomCalls
    /\ frame = [pc |-> "call"]
    /\ ret = NoRet

\* the call of binom_coeff runs to its end
BinomCoeffCall ==
    /\ call.fn = "binom_coeff"
    /\ frame.pc = "call"
    /\ ret' = binom_coeff(call.n, call.k, call.method)
    /\ frame' = [pc |-> "done"]
    /\ UNCHANGED <<call, botvars>>

BinomNext == BinomCoeffCall

BinomSpec == BinomInit /\ [][BinomNext]_vars

(***************************************************************************)
(* Properties of binom_coeff                                               *)
(***************************************************************************)
BinomDone == call.fn = "binom_coeff" /\ frame.pc = "done"

RECURSIVE Fact(_)
\* n!
Fact(n) == IF n = 0 THEN 1 ELSE n * Fact(n - 1)

KnownBinomMethods == {"recursive", "multiplicative", "factorial"}

\* C6: for 0 <= k <= n the three methods and the default call of
\* binom_coeff return the same value, n!/(k!(n-k)!); in particular
\* binom_coeff(n, 0) = 1 and binom_coeff(n, n) = 1
C6_BinomMethodsAgree ==
    (/\ BinomDone
     /\ 0 <= call.k /\ call.k <= call.n
     /\ call.method \in KnownBinomMethods \cup {None})
    => /\ ret.kind = "value"
       /\ ret.value[2] = 1
       /\ ret.value[1] * Fact(call.k) * Fact(call.n - call.k) = Fact(call.n)
       /\ (call.k = 0 \/ call.k = call.n) => ret.value = <<1, 1>>

\* binom_coeff(5, 3) by the default method returned 10
C6_Witness ==
    /\ BinomDone
    /\ call.n = 5 /\ call.k = 3 /\ call.method = None
    /\ ret = Value(<<10, 1>>)

\* C7 as stated: binom_coeff fails with ValueError whenever k < 0, k > n or
\* n <= 0, whatever the method, and returns a value only when 0 <= k <= n
\* and n > 0
C7_Original ==
    BinomDone =>
        /\ (call.k < 0 \/ call.k > call.n \/ call.n <= 0) => ret = Raise("ValueError")
        /\ ret.kind = "value" => (0 <= call.k /\ call.k <= call.n /\ call.n > 0)

\* C7 amended: binom_coeff fails with ValueError whenever k # 0 and (k < 0,
\* k > n or n <= 0), whatever the method; with k = 0 it returns 1 for every
\* n and every method; it returns a value only when k = 0 or 1 <= k <= n
C7_InvalidArguments ==
    BinomDone =>
        /\ (call.k # 0 /\ (call.k < 0 \/ call.k > call.n \/ call.n <= 0))
           => ret = Raise("ValueError")
        /\ call.k = 0 => ret = Value(<<1, 1>>)
        /\ ret.kind = "value" => (call.k = 0 \/ (1 <= call.k /\ call.k <= call.n))

\* binom_coeff(2, 3, 'NA_METHOD') raised ValueError
C7_Witness ==
    /\ BinomDone
    /\ call.n = 2 /\ call.k = 3 /\ call.method = "NA_METHOD"
    /\ ret = Raise("ValueError")

\* C8 as stated: binom_coeff fails with KeyError for every method name
\* outside the three known ones and every pair 0 <= k <= n, n > 0
C8_Original ==
    (/\ BinomDone
     /\ call.method \notin KnownBinomMethods \cup {None}
     /\ 0 <= call.k /\ call.k <= call.n /\ call.n > 0)
    => ret = Raise("KeyError")

\* C8 amended: binom_coeff fails with KeyError for every method name outside
\* the three known ones and every pair 1 <= k <= n; with k = 0 it returns 1
\* without looking the method up
C8_UnknownMethod ==
    (/\ BinomDone
     /\ call.method \notin KnownBinomMethods \cup {None})
    => /\ (1 <= call.k /\ call.k <= call.n) => ret = Raise("KeyError")
       /\ call.k = 0 => ret = Value(<<1, 1>>)

\* binom_coeff(5, 3, 'NA_METHOD') raised KeyError
C8_Witness ==
    /\ BinomDone
    /\ call.n = 5 /\ call.k = 3 /\ call.method = "NA_METHOD"
    /\ ret = Raise("KeyError")

(***************************************************************************)
(* mathpy/numtheory/gcd.py.  Python's % and // on integers: the quotient   *)
(* is rounded towards minus infinity, the remainder has the sign of the    *)
(* divisor.                                                                *)
(***************************************************************************)
\* a // b, b # 0
PyFloorDiv(a, b) == IF b > 0 THEN a \div b ELSE (-a) \div (-b)

\* a % b, b # 0
PyMod(a, b) == a - b * PyFloorDiv(a, b)

\* the attributes hasattr finds on a _GCD object: the three set by
\* __init__ and the three methods of the class
GCD_attributes == {"a", "b", "method", "division", "subtraction", "recursive"}

\* the body of the loop of division written without the temporary x:
\* self.a = self.b; self.b = self.a % self.b
division_body_notemp(a, b) == <<b, PyMod(b, b)>>

\* the body of the loop of _GCD.division: the new (self.a, self.b)
division_body(a, b) == <<b, PyMod(a, b)>>

\* the body of the loop of _GCD.subtraction: the new (self.a, self.b)
subtraction_body(a, b) == IF a > b THEN <<a - b, b>> ELSE <<a, b - a>>

\* the arguments of the recursive call of _GCD.recursive
recursive_body(a, b) == <<b, PyMod(a, b)>>

\* the calls of gcd that are tried: every pair within the bound and the
\* pairs of the documentation
GcdMethods == {None, "recursive", "division", "subtraction", "gcd_division", "method"}
GcdPairs == ((-MaxG)..MaxG) \X ((-MaxG)..MaxG) \cup {<<12, 8>>, <<24, 30>>, <<9, 5>>}
GcdCalls == {[fn |-> "gcd", a |-> p[1], b |-> p[2], method |-> m] :
                 p \in GcdPairs, m \in GcdMethods}

GcdInit ==
    /\ BotInit
    /\ call \in GcdCalls
    /\ frame = [pc |-> "call"]
    /\ ret = NoRet

\* gcd up to the call of the chosen method: the constructor of _GCD, which
\* raises ValueError when a = b = 0 and keeps the absolute values, and the
\* choice of the method
gcd_call ==
    /\ call.fn = "gcd"
    /\ frame.pc = "call"
    /\ UNCHANGED <<call, botvars>>
    /\ IF call.a = 0 /\ call.b = 0
       THEN /\ frame' = [pc |-> "raised"]
            /\ ret' = Raise("ValueError")
       ELSE LET self == [a |-> Abs(call.a), b |-> Abs(call.b)]
            IN  CASE call.method = None \/ call.method = "recursive" ->
                       /\ frame' = [pc |-> "recursive", a |-> call.a, b |-> call.b]
                       /\ ret' = ret
                  [] call.method \in {"division", "subtraction"} ->
                       /\ frame' = [pc |-> call.method, a |-> self.a, b |-> self.b]
                       /\ ret' = ret
                  [] call.method \in GCD_attributes \ {"recursive", "division", "subtraction"} ->
                       /\ frame' = [pc |-> "raised"]
                       /\ ret' = Raise("TypeError")
                  [] OTHER ->
                       /\ frame' = [pc |-> "raised"]
                       /\ ret' = Raise("ValueError")

\* one test of the loop of _GCD.division and the body or the return
division_step ==
    /\ frame.pc = "division"
    /\ UNCHANGED <<call, botvars>>
    /\ IF frame.b # 0
       THEN /\ frame' = [frame EXCEPT !.a = division_body(frame.a, frame.b)[1],
                                      !.b = division_body(frame.a, frame.b)[2]]
            /\ ret' = ret
       ELSE /\ frame' = [pc |-> "done"]
            /\ ret' = Value(frame.a)

\* one test of the loop of _GCD.subtraction and the body or the return
subtraction_step ==
    /\ frame.pc = "subtraction"
    /\ UNCHANGED <<call, botvars>>
    /\ IF frame.a # frame.b
       THEN /\ frame' = [frame EXCEPT !.a = subtraction_body(frame.a, frame.b)[1],
                                      !.b = subtraction_body(frame.a, frame.b)[2]]
            /\ ret' = ret
       ELSE /\ frame' = [pc |-> "done"]
            /\ ret' = Value(frame.a)

\* one call of _GCD.recursive: the return or the (tail) recursive call
recursive_step ==
    /\ frame.pc = "recursive"
    /\ UNCHANGED <<call, botvars>>
    /\ IF frame.b = 0
       THEN /\ frame' = [pc |-> "done"]
            /\ ret' = Value(frame.a)
       ELSE /\ frame' = [frame EXCEPT !.a = recursive_body(frame.a, frame.b)[1],
                                      !.b = recursive_body(frame.a, frame.b)[2]]
            /\ ret' = ret

GcdNext == gcd_call \/ division_step \/ subtraction_step \/ recursive_step

GcdSpec == GcdInit /\ [][GcdNext]_vars

\* the interpreter runs a call until it returns or raises
GcdFairSpec == GcdSpec /\ WF_vars(GcdNext)

(***************************************************************************)
(* Properties of gcd                                                       *)
(***************************************************************************)
GcdDone == call.fn = "gcd" /\ frame.pc = "done"

Max(x, y) == IF x >= y THEN x ELSE y

\* d divides x
Divides(d, x) == \E q \in (-Abs(x))..Abs(x) : x = d * q

\* the greatest common divisor of x and y, x, y >= 0 and not both zero
GreatestCommonDivisor(x, y) ==
    CHOOSE d \in 1..Max(x, y) :
        /\ Divides(d, x) /\ Divides(d, y)
        /\ \A e \in 1..Max(x, y) : (Divides(e, x) /\ Divides(e, y)) => e <= d

KnownGcdMethods == {"recursive", "division", "subtraction"}

\* the arguments of the call are positive and the method is one of the
\* three algorithms or left out
C9_Case ==
    /\ call.fn = "gcd"
    /\ call.a > 0 /\ call.b > 0
    /\ call.method \in KnownGcdMethods \cup {None}

\* what such a call may return
C9_Result ==
    /\ frame.pc # "raised"
    /\ frame.pc = "done" => ret = Value(GreatestCommonDivisor(call.a, call.b))
    /\ (frame.pc = "done" /\ call.a = 12 /\ call.b = 8) => ret = Value(4)
    /\ (frame.pc = "done" /\ call.a = 24 /\ call.b = 30) => ret = Value(6)
    /\ (frame.pc = "done" /\ call.a = 9 /\ call.b = 5) => ret = Value(1)

\* C9: for a, b > 0 the three algorithms and the default call of gcd all
\* return, and return the same value, the greatest common divisor of a and
\* b (gcd(12, 8) = 4, gcd(24, 30) = 6, gcd(9, 5) = 1)
C9_GcdMethodsAgree ==
    /\ [](C9_Case => C9_Result)
    /\ [](C9_Case => <>(frame.pc = "done"))

\* gcd(24, 30, 'division') returned 6
C9_Witness ==
    /\ GcdDone
    /\ call.a = 24 /\ call.b = 30 /\ call.method = "division"
    /\ ret = Value(6)

(***************************************************************************)
(* mathpy/numtheory/gcd.py: gcd_extended.  The recursion is run one call   *)
(* at a time: frame.cur holds the arguments of the call being entered,     *)
(* frame.stack the arguments of the calls waiting for their recursive      *)
(* call, frame.res the tuple the last call returned.                       *)
(***************************************************************************)
\* the tuple a call with arguments (a, b) returns with a % b in place of
\* a // b
gcd_extended_combine_mod(a, b, res) ==
    <<res[1], res[3], res[2] - PyMod(a, b) * res[3]>>

\* the tuple a call with arguments (a, b) returns once its recursive call
\* returned res = (d, x, y): (d, y, x - (a // b) * y)
gcd_extended_combine(a, b, res) ==
    <<res[1], res[3], res[2] - PyFloorDiv(a, b) * res[3]>>

EgcdPairs == ((-MaxE)..MaxE) \X ((-MaxE)..MaxE) \cup {<<99, 78>>}
EgcdCalls == {[fn |-> "gcd_extended", a |-> p[1], b |-> p[2]] : p \in EgcdPairs}

EgcdInit ==
    /\ BotInit
    /\ call \in EgcdCalls
    /\ frame = [pc |-> "enter", cur |-> <<call.a, call.b>>, stack |-> <<>>, res |-> <<>>]
    /\ ret = NoRet

\* a call of gcd_extended is entered: it raises ValueError, returns
\* (a, 1, 0), or calls gcd_extended(b, a % b)
gcd_extended_enter ==
    /\ call.fn = "gcd_extended"
    /\ frame.pc = "enter"
    /\ UNCHANGED <<call, botvars>>
    /\ LET a == frame.cur[1]
           b == frame.cur[2]
       IN  IF a = 0 /\ b = 0
           THEN /\ frame' = [frame EXCEPT !.pc = "raised"]
                /\ ret' = Raise("ValueError")
           ELSE IF b = 0
           THEN /\ frame' = [frame EXCEPT !.pc = "return", !.res = <<a, 1, 0>>]
                /\ ret' = ret
           ELSE /\ frame' = [frame EXCEPT !.stack = Append(frame.stack, frame.cur),
                                          !.cur = <<b, PyMod(a, b)>>]
                /\ ret' = ret

\* a call of gcd_extended returns: to the call waiting for it, which
\* builds its own tuple, or to the caller of the outermost call
gcd_extended_return ==
    /\ call.fn = "gcd_extended"
    /\ frame.pc = "return"
    /\ UNCHANGED <<call, botvars>>
    /\ IF frame.stack = <<>>
       THEN /\ frame' = [frame EXCEPT !.pc = "done"]
            /\ ret' = Value(frame.res)
       ELSE LET top == frame.stack[Len(frame.stack)]
            IN  /\ frame' = [frame EXCEPT
                       !.stack = SubSeq(frame.stack, 1, Len(frame.stack) - 1),
                       !.cur = top,
                       !.res = gcd_extended_combine(top[1], top[2], frame.res)]
                /\ ret' = ret

EgcdNext == gcd_extended_enter \/ gcd_extended_return

EgcdSpec == EgcdInit /\ [][EgcdNext]_vars

\* the interpreter runs a call until it returns or raises
EgcdFairSpec == EgcdSpec /\ WF_vars(EgcdNext)

(***************************************************************************)
(* Properties of gcd_extended                                              *)
(***************************************************************************)
\* a call with arguments a, b >= 0
C10_Case == call.fn = "gcd_extended" /\ call.a >= 0 /\ call.b >= 0

\* what such a call may return or raise
C10_Result ==
    /\ (call.a = 0 /\ call.b = 0) => frame.pc # "done"
    /\ frame.pc = "raised" => (call.a = 0 /\ call.b = 0 /\ ret = Raise("ValueError"))
    /\ frame.pc = "done" =>
          /\ ret.kind = "value"
          /\ ret.value[1] = GreatestCommonDivisor(call.a, call.b)
          /\ call.a * ret.value[2] + call.b * ret.value[3] = ret.value[1]
    /\ (frame.pc = "done" /\ call.a = 99 /\ call.b = 78) => ret = Value(<<3, -11, 14>>)

\* C10: for a, b >= 0 not both zero gcd_extended(a, b) terminates and
\* returns (d, x, y) with a*x + b*y = d and d the greatest common divisor
\* of a and b; gcd_extended(99, 78) = (3, -11, 14); gcd_extended(0, 0)
\* raises ValueError
C10_ExtendedGcd ==
    /\ [](C10_Case => C10_Result)
    /\ []((C10_Case /\ ~(call.a = 0 /\ call.b = 0)) => <>(frame.pc = "done"))
    /\ []((C10_Case /\ call.a = 0 /\ call.b = 0) => <>(frame.pc = "raised"))

\* gcd_extended(99, 78) returned (3, -11, 14)
C10_Witness ==
    /\ call.fn = "gcd_extended"
    /\ call.a = 99 /\ call.b = 78
    /\ frame.pc = "done"
    /\ ret = Value(<<3, -11, 14>>)

\* ---------------------------------------------------------------------
\* mathpy.numtheory.integers / mathpy.numtheory.factor
\* ---------------------------------------------------------------------

\* largest argument of the number-theory calls
MaxP == 26

\* np.floor(np.sqrt(n)) for an integer n >= 0
FloorSqrt(n) == CHOOSE r \in 0..n : r * r <= n /\ n < (r + 1) * (r + 1)

\* np.ceil(np.sqrt(n)) for an integer n >= 0
CeilSqrt(n) == CHOOSE r \in 0..n : r * r >= n /\ (r = 0 \/ (r - 1) * (r - 1) < n)

\* np.ceil(np.sqrt(np.sqrt(n))) for an integer n >= 0
CeilRoot4(n) ==
    CHOOSE r \in 0..n :
        /\ r * r * r * r >= n
        /\ (r = 0 \/ (r - 1) * (r - 1) * (r - 1) * (r - 1) < n)

\* isprime(n) for an integer n >= 0 (an integer always equals its rounding);
\* the loop runs i over np.arange(5, floor(sqrt(n))), end excluded
isprime(n) ==
    IF n = 1 THEN FALSE
    ELSE IF n = 2 \/ n = 3 THEN TRUE
    ELSE IF n % 2 = 0 \/ n % 3 = 0 THEN FALSE
    ELSE IF \E i \in 5..(FloorSqrt(n) - 1) : n % i = 0 \/ n % (i + 2) = 0 THEN FALSE
    ELSE TRUE

\* the real number sqrt(b) for an integer b >= 0, kept exact by its radicand
np_sqrt(b) == [rad |-> b]

\* issquare(x) for the real x = sqrt(x.rad): ceil(sqrt(x))^2 == ceil(x)
issquare(x) == CeilRoot4(x.rad) * CeilRoot4(x.rad) = CeilSqrt(x.rad)

\* gcd(a, b) with the default (recursive) method, a, b not both zero
RECURSIVE gcd_default(_, _)
gcd_default(a, b) ==
    IF b = 0 THEN a
    ELSE gcd_default(recursive_body(a, b)[1], recursive_body(a, b)[2])

\* a returned Python string (kept apart from the numeric and tuple values)
StrValue(s) == [kind |-> "str", value |-> s]

NumFunctions == {"isprime", "factor_trial", "fermat", "pollardrho"}

NumCalls == [fn : NumFunctions, n : 0..MaxP]

NumInit ==
    /\ BotInit
    /\ call \in NumCalls
    /\ frame = [pc |-> "call"]
    /\ ret = NoRet

\* isprime(n), one call
isprime_call ==
    /\ call.fn = "isprime"
    /\ frame.pc = "call"
    /\ frame' = [pc |-> "done"]
    /\ ret' = Value(isprime(call.n))
    /\ UNCHANGED <<call, botvars>>

\* factor_trial(n) up to the first loop
factor_trial_call ==
    /\ call.fn = "factor_trial"
    /\ frame.pc = "call"
    /\ IF isprime(call.n) \/ Abs(call.n) < 2
       THEN /\ frame' = [pc |-> "done"]
            /\ ret' = Value(<<1, call.n>>)
       ELSE /\ frame' = [pc |-> "twos", n |-> call.n, div |-> 2, factors |-> <<>>]
            /\ ret' = ret
    /\ UNCHANGED <<call, botvars>>

\* one test of "while n % div == 0" with div = 2, then div += 1
factor_trial_twos ==
    /\ frame.pc = "twos"
    /\ IF frame.n % frame.div = 0
       THEN frame' = [frame EXCEPT !.factors = Append(@, frame.div),
                                   !.n = frame.n \div frame.div]
       ELSE frame' = [frame EXCEPT !.pc = "odds", !.div = frame.div + 1]
    /\ UNCHANGED <<call, ret, botvars>>

\* one test of "while n > 1 and div <= sqrt(n)", then the final append
factor_trial_odds ==
    /\ frame.pc = "odds"
    /\ IF frame.n > 1 /\ frame.div * frame.div <= frame.n
       THEN /\ IF frame.n % frame.div = 0
               THEN frame' = [frame EXCEPT !.factors = Append(@, frame.div),
                                           !.n = frame.n \div frame.div]
               ELSE frame' = [frame EXCEPT !.div = frame.div + 2]
            /\ ret' = ret
       ELSE /\ frame' = [pc |-> "done"]
            /\ ret' = Value(IF frame.n > 1 THEN Append(frame.factors, frame.n)
                            ELSE frame.factors)
    /\ UNCHANGED <<call, botvars>>

\* fermat(n) up to the loop
fermat_call ==
    /\ call.fn = "fermat"
    /\ frame.pc = "call"
    /\ IF isprime(call.n) \/ Abs(call.n) < 2
       THEN /\ frame' = [pc |-> "done"]
            /\ ret' = Value([a |-> 1, b |-> np_sqrt(call.n * call.n)])
       ELSE /\ frame' = [pc |-> "fermat", a |-> CeilSqrt(call.n),
                         b |-> CeilSqrt(call.n) * CeilSqrt(call.n) - call.n]
            /\ ret' = ret
    /\ UNCHANGED <<call, botvars>>

\* one test of "while issquare(np.sqrt(b)) is False", then the return
fermat_step ==
    /\ frame.pc = "fermat"
    /\ IF ~issquare(np_sqrt(frame.b))
       THEN /\ frame' = [frame EXCEPT !.a = frame.a + 1,
                                      !.b = (frame.a + 1) * (frame.a + 1) - call.n]
            /\ ret' = ret
       ELSE /\ frame' = [pc |-> "done"]
            /\ ret' = Value([a |-> frame.a, b |-> np_sqrt(frame.b)])
    /\ UNCHANGED <<call, botvars>>

\* pollardrho(n) up to the loop
pollardrho_call ==
    /\ call.fn = "pollardrho"
    /\ frame.pc = "call"
    /\ IF isprime(call.n) \/ Abs(call.n) < 2
       THEN /\ frame' = [pc |-> "done"]
            /\ ret' = Value(<<1, call.n>>)
       ELSE /\ frame' = [pc |-> "rho", x |-> 2, y |-> 2, d |-> 1]
            /\ ret' = ret
    /\ UNCHANGED <<call, botvars>>

\* one pass of "while d == 1", then the return once d # 1
pollardrho_step ==
    /\ frame.pc = "rho"
    /\ LET x == PyMod(frame.x * frame.x + 1, call.n)
           y == PyMod((frame.y * frame.y + 1) * (frame.y * frame.y + 1) + 1, call.n)
           d == gcd_default(Abs(x - y), call.n)
       IN  IF d = 1
           THEN /\ frame' = [frame EXCEPT !.x = x, !.y = y, !.d = d]
                /\ ret' = ret
           ELSE /\ frame' = [pc |-> "done"]
                /\ ret' = IF d = call.n THEN StrValue("Could not find factor")
                          ELSE Value(<<d, PyFloorDiv(call.n, d)>>)
    /\ UNCHANGED <<call, botvars>>

NumNext ==
    \/ isprime_call
    \/ factor_trial_call
    \/ factor_trial_twos
    \/ factor_trial_odds
    \/ fermat_call
    \/ fermat_step
    \/ pollardrho_call
    \/ pollardrho_step

NumSpec == NumInit /\ [][NumNext]_vars

\* every enabled step of a call is eventually taken: a call runs to its end
NumFairSpec == NumSpec /\ WF_vars(NumNext)

\* n has no divisor d with 1 < d < n
NoProperDivisor(n) == \A d \in 2..(n - 1) : n % d # 0

\* C11: for every 2 <= n <= MaxP isprime(n) is True exactly when n has no
\* divisor strictly between 1 and n, and isprime(1) is False
C11_IsPrimeExact ==
    (call.fn = "isprime" /\ frame.pc = "done") =>
        /\ call.n >= 2 => (ret.value <=> NoProperDivisor(call.n))
        /\ call.n = 1 => ret.value = FALSE

\* n >= 2 is a prime number
IsPrimeNumber(n) == n >= 2 /\ NoProperDivisor(n)

\* the product of a list of integers
RECURSIVE Product(_)
Product(s) == IF s = <<>> THEN 1 ELSE Head(s) * Product(Tail(s))

\* C12: for composite 2 <= n <= MaxP factor_trial(n) returns a list of
\* primes, each smaller than n, whose product is n; for prime n it
\* returns [1, n]
C12_FactorTrial ==
    (call.fn = "factor_trial" /\ frame.pc = "done" /\ call.n >= 2) =>
        IF IsPrimeNumber(call.n)
        THEN ret = Value(<<1, call.n>>)
        ELSE /\ \A i \in 1..Len(ret.value) :
                   IsPrimeNumber(ret.value[i]) /\ ret.value[i] < call.n
             /\ Product(ret.value) = call.n

\* m >= 0 is the square of an integer
PerfectSquare(m) == \E r \in 0..m : r * r = m

\* the smallest a >= ceil(sqrt(n)) for which a^2 - n is a perfect square
SmallestFermat(n) ==
    CHOOSE a \in CeilSqrt(n)..n :
        /\ PerfectSquare(a * a - n)
        /\ \A c \in CeilSqrt(n)..(a - 1) : ~PerfectSquare(c * c - n)

\* a call of fermat with an odd composite n
C18_Case ==
    /\ call.fn = "fermat"
    /\ call.n >= 2 /\ call.n % 2 = 1
    /\ ~IsPrimeNumber(call.n)

\* what such a call returns: (a, b) with b = sqrt(a^2 - n) an integer
C18_Result ==
    frame.pc = "done" =>
        /\ ret.value.a = SmallestFermat(call.n)
        /\ PerfectSquare(ret.value.b.rad)
        /\ ret.value.a * ret.value.a - ret.value.b.rad = call.n

\* C18: for every odd composite n fermat(n) terminates and returns (a, b)
\* where a is the smallest integer >= ceil(sqrt(n)) with a^2 - n a perfect
\* square, b = sqrt(a^2 - n) is an integer and (a - b)(a + b) = n
C18_Fermat ==
    /\ [](C18_Case => C18_Result)
    /\ [](C18_Case => <>(frame.pc = "done"))

\* a call of pollardrho with n >= 2
C19_Case == call.fn = "pollardrho" /\ call.n >= 2

\* what such a call returns when n is composite
C19_Result ==
    (frame.pc = "done" /\ ~IsPrimeNumber(call.n)) =>
        \/ ret = StrValue("Could not find factor")
        \/ /\ ret.kind = "value"
           /\ 1 < ret.value[1] /\ ret.value[1] < call.n
           /\ ret.value[1] * ret.value[2] = call.n
           /\ ret.value[2] = call.n \div ret.value[1]

\* C19: for n >= 2 pollardrho(n) terminates; for composite n it returns
\* either the failure string or (d, n // d) with 1 < d < n and
\* d * (n // d) = n
C19_PollardRho ==
    /\ [](C19_Case => C19_Result)
    /\ [](C19_Case => <>(frame.pc = "done"))

\* ---------------------------------------------------------------------
\* gcd with zero and negative arguments
\* ---------------------------------------------------------------------

\* the value _GCD.division returns from self.a = a, self.b = b
RECURSIVE division_loop(_, _)
division_loop(a, b) ==
    IF b # 0 THEN division_loop(division_body(a, b)[1], division_body(a, b)[2])
    ELSE a

\* the value _GCD.subtraction returns from self.a = a, self.b = b (a, b > 0)
RECURSIVE subtraction_loop(_, _)
subtraction_loop(a, b) ==
    IF a # b THEN subtraction_loop(subtraction_body(a, b)[1], subtraction_body(a, b)[2])
    ELSE a

\* the value of gcd(a, b, method) for a, b # 0 and a known method
gcd_value(a, b, method) ==
    CASE method = None \/ method = "recursive" -> gcd_default(a, b)
      [] method = "division" -> division_loop(Abs(a), Abs(b))
      [] method = "subtraction" -> subtraction_loop(Abs(a), Abs(b))

\* a call with a known method and exactly one argument zero
C16_Case ==
    /\ call.fn = "gcd"
    /\ call.method \in KnownGcdMethods \cup {None}
    /\ (call.a = 0) # (call.b = 0)

\* such a call is not rejected and returns |a| for the nonzero argument a
C16_Result ==
    /\ frame.pc # "raised"
    /\ frame.pc = "done" => ret = Value(Abs(call.a) + Abs(call.b))

\* C16: for every nonzero a and every method (default, recursive, division,
\* subtraction) gcd(a, 0, method) and gcd(0, a, method) terminate and return
\* |a|; with a known method only a = b = 0 is rejected
C16_ZeroArgument ==
    /\ [](C16_Case => C16_Result)
    /\ [](C16_Case => <>(frame.pc = "done"))
    /\ []((call.fn = "gcd" /\ call.method \in KnownGcdMethods \cup {None} /\ frame.pc = "raised")
              => (call.a = 0 /\ call.b = 0))

\* a finished call with a known method and both arguments nonzero
C17_Case ==
    /\ call.fn = "gcd"
    /\ call.method \in KnownGcdMethods \cup {None}
    /\ call.a # 0 /\ call.b # 0
    /\ frame.pc = "done"

\* C17: for all nonzero a, b of either sign and every method including the
\* default, gcd(a, b) = gcd(b, a) = gcd(|a|, |b|) and the result is positive
C17_SignIndependent ==
    C17_Case =>
        /\ ret.value = gcd_value(call.a, call.b, call.method)
        /\ ret.value = gcd_value(call.b, call.a, call.method)
        /\ ret.value = gcd_value(Abs(call.a), Abs(call.b), call.method)
        /\ ret.value > 0

\* ---------------------------------------------------------------------
\* mathpy.settheory.sets: the methods of Set
\* ---------------------------------------------------------------------

\* the elements are 1..MaxElem, a list has at most MaxLen items and a call
\* has at most MaxArgs extra arguments
MaxElem == 2
MaxLen == 2
MaxArgs == 2

\* set(x) for a list x
Range(x) == {x[i] : i \in DOMAIN x}

\* list(s) for a set s: its elements in the order the iteration yields;
\* the methods only test membership in the lists they build and return
\* set(...) of them, so one order stands for all
RECURSIVE SetToList(_)
SetToList(s) ==
    IF s = {} THEN <<>>
    ELSE LET e == CHOOSE e \in s : \A o \in s : e <= o
         IN  <<e>> \o SetToList(s \ {e})

\* _convert_to_set(x) for a list x: set(x)
convert_to_set(x) == Range(x)

\* Set(x): the instance keeps self.x = _convert_to_set(x)
Set_init(x) == [kind |-> "Set", x |-> convert_to_set(x)]

\* a raw list passed as self to an unbound method: it has no attribute x
RawList(x) == [kind |-> "list", items |-> x]

\* the first lines of every method: u = list(self) when self has no
\* attribute x and u = list(self.x) otherwise
receiver_list(self) ==
    IF self.kind = "list" THEN self.items ELSE SetToList(self.x)

\* the loop "for i in b: if i not in u: u.append(i)" of nunion
RECURSIVE nunion_b_loop(_, _)
nunion_b_loop(u, b) ==
    IF b = <<>> THEN u
    ELSE nunion_b_loop(IF Head(b) \notin Range(u) THEN Append(u, Head(b)) ELSE u,
                       Tail(b))

\* the loop over the extra arguments of nunion that stops after the
\* first of them
nunion_args_loop_first(u, args) ==
    IF args = <<>> THEN u
    ELSE nunion_b_loop(u, SetToList(convert_to_set(Head(args))))

\* the loop over the extra arguments of nunion: each is converted to a set
\* and its elements not yet in u are appended
RECURSIVE nunion_args_loop(_, _)
nunion_args_loop(u, args) ==
    IF args = <<>> THEN u
    ELSE nunion_args_loop(nunion_b_loop(u, SetToList(convert_to_set(Head(args)))),
                          Tail(args))

\* Set.nunion(self, b, *args)
nunion(self, b, args) ==
    Range(nunion_args_loop(nunion_b_loop(receiver_list(self), b), args))

\* the loop "for i in b: if i in u: intersect.append(i)" of nintersect
RECURSIVE nintersect_b_loop(_, _, _)
nintersect_b_loop(intersect, u, b) ==
    IF b = <<>> THEN intersect
    ELSE nintersect_b_loop(IF Head(b) \in Range(u) THEN Append(intersect, Head(b))
                           ELSE intersect,
                           u, Tail(b))

\* the loop over one extra argument that appends every element of s
nintersect_s_loop_append(intersect, s) == intersect \o s

\* "for j in s: if j in intersect: intersect.append(j)" for one extra
\* argument s, given as the list of its elements
RECURSIVE nintersect_s_loop(_, _)
nintersect_s_loop(intersect, s) ==
    IF s = <<>> THEN intersect
    ELSE nintersect_s_loop(IF Head(s) \in Range(intersect)
                           THEN Append(intersect, Head(s)) ELSE intersect,
                           Tail(s))

\* the loop over the extra arguments of nintersect
RECURSIVE nintersect_args_loop(_, _)
nintersect_args_loop(intersect, args) ==
    IF args = <<>> THEN intersect
    ELSE nintersect_args_loop(
             nintersect_s_loop(intersect, SetToList(convert_to_set(Head(args)))),
             Tail(args))

\* Set.nintersect(self, b, *args)
nintersect(self, b, args) ==
    Range(nintersect_args_loop(nintersect_b_loop(<<>>, receiver_list(self), b), args))

\* Set.isequalset(self, b, *args): the test of the lengths of the two
\* lists, the loop over u and the loop over the extra arguments
isequalset(self, b, args) ==
    LET u == receiver_list(self)
    IN  IF Len(u) # Len(b) THEN FALSE
        ELSE IF \E i \in Range(u) : i \notin Range(b) THEN FALSE
        ELSE IF \E n \in DOMAIN args :
                    \E j \in convert_to_set(args[n]) : j \notin Range(b) THEN FALSE
        ELSE TRUE

\* the list comprehension at the head of ndifference: the items i of u
\* with i not in b, in order and with their repetitions
RECURSIVE ndifference_b_loop(_, _)
ndifference_b_loop(u, b) ==
    IF u = <<>> THEN <<>>
    ELSE IF Head(u) \notin Range(b) THEN <<Head(u)>> \o ndifference_b_loop(Tail(u), b)
    ELSE ndifference_b_loop(Tail(u), b)

\* d.remove(j) for j in d: d without the first occurrence of j
list_remove(d, j) ==
    LET n == CHOOSE n \in DOMAIN d : d[n] = j /\ \A m \in 1..(n - 1) : d[m] # j
    IN  SubSeq(d, 1, n - 1) \o SubSeq(d, n + 1, Len(d))

\* "for j in s: if j in d: d.remove(j)" for one extra argument s, given
\* as the list of its elements
RECURSIVE ndifference_s_loop(_, _)
ndifference_s_loop(d, s) ==
    IF s = <<>> THEN d
    ELSE ndifference_s_loop(IF Head(s) \in Range(d) THEN list_remove(d, Head(s)) ELSE d,
                            Tail(s))

\* the loop over the extra arguments of ndifference
RECURSIVE ndifference_args_loop(_, _)
ndifference_args_loop(d, args) ==
    IF args = <<>> THEN d
    ELSE ndifference_args_loop(
             ndifference_s_loop(d, SetToList(convert_to_set(Head(args)))), Tail(args))

\* Set.ndifference(self, b, *args)
ndifference(self, b, args) ==
    Range(ndifference_args_loop(ndifference_b_loop(receiver_list(self), b), args))

\* Set.cartesianproduct(self, a), here with the argument named b: the
\* list of set([i, j]) for j in list(self), for i in b
cartesianproduct(self, b) ==
    LET a == receiver_list(self)
    IN  [n \in 1..(Len(a) * Len(b)) |->
            {b[((n - 1) % Len(b)) + 1], a[((n - 1) \div Len(b)) + 1]}]

\* the lists that are tried as self and as b, and as extra arguments
Lists == UNION {[1..k -> 1..MaxElem] : k \in 0..MaxLen}
ArgLists == {SetToList(s) : s \in SUBSET (1..MaxElem)}
Receivers == {RawList(x) : x \in Lists} \cup {Set_init(x) : x \in Lists}
ArgTuples == UNION {[1..k -> ArgLists] : k \in 0..MaxArgs}

\* the methods that take b and extra arguments, and all the methods
NaryMethods == {"nunion", "nintersect", "isequalset", "ndifference"}
SetMethods == NaryMethods \cup {"cartesianproduct"}

\* the call of the documentation: a, b, c, d = [1,2,3,5], [1,3,5],
\* [1,4,5,3], [2,5,1,3], as Set.f(a, b, c, d) and as Set(a).f(b, c, d)
DocSetCalls ==
    {[fn |-> f, self |-> r, b |-> <<1, 3, 5>>,
      args |-> << <<1, 4, 5, 3>>, <<2, 5, 1, 3>> >>] :
         f \in NaryMethods,
         r \in {RawList(<<1, 2, 3, 5>>), Set_init(<<1, 2, 3, 5>>)}}

SetCalls ==
    [fn : NaryMethods, self : Receivers, b : Lists, args : ArgTuples]
    \cup DocSetCalls
    \cup [fn : {"cartesianproduct"}, self : Receivers, b : Lists, args : {<<>>}]

SetInit ==
    /\ BotInit
    /\ call \in SetCalls
    /\ frame = [pc |-> "call"]
    /\ ret = NoRet

\* one call of nunion
nunion_call ==
    /\ call.fn = "nunion"
    /\ frame.pc = "call"
    /\ frame' = [pc |-> "done"]
    /\ ret' = Value(nunion(call.self, call.b, call.args))
    /\ UNCHANGED <<call, botvars>>

\* one call of nintersect
nintersect_call ==
    /\ call.fn = "nintersect"
    /\ frame.pc = "call"
    /\ frame' = [pc |-> "done"]
    /\ ret' = Value(nintersect(call.self, call.b, call.args))
    /\ UNCHANGED <<call, botvars>>

\* one call of isequalset
isequalset_call ==
    /\ call.fn = "isequalset"
    /\ frame.pc = "call"
    /\ frame' = [pc |-> "done"]
    /\ ret' = Value(isequalset(call.self, call.b, call.args))
    /\ UNCHANGED <<call, botvars>>

\* one call of ndifference
ndifference_call ==
    /\ call.fn = "ndifference"
    /\ frame.pc = "call"
    /\ frame' = [pc |-> "done"]
    /\ ret' = Value(ndifference(call.self, call.b, call.args))
    /\ UNCHANGED <<call, botvars>>

\* one call of cartesianproduct
cartesianproduct_call ==
    /\ call.fn = "cartesianproduct"
    /\ frame.pc = "call"
    /\ frame' = [pc |-> "done"]
    /\ ret' = Value(cartesianproduct(call.self, call.b))
    /\ UNCHANGED <<call, botvars>>

SetNext ==
    \/ nunion_call
    \/ nintersect_call
    \/ isequalset_call
    \/ ndifference_call
    \/ cartesianproduct_call

SetSpec == SetInit /\ [][SetNext]_vars

\* the elements of the receiver of the call
SelfElements == IF call.self.kind = "list" THEN Range(call.self.items) ELSE call.self.x

\* the elements of the i-th extra argument of the call
ArgElements(i) == Range(call.args[i])

C20_NintersectIsIntersection ==
    (call.fn = "nintersect" /\ frame.pc = "done") =>
        /\ ret.value = {e \in SelfElements \cap Range(call.b) :
                            \A i \in DOMAIN call.args : e \in ArgElements(i)}
        /\ call \in DocSetCalls => ret.value = {1, 3, 5}

\* ---------------------------------------------------------------------
\* mathpy.linalgebra.lu: lu
\* ---------------------------------------------------------------------

\* a matrix has at most MaxDim rows and columns and entries of absolute
\* value at most MaxEntry
MaxDim == 2
MaxEntry == 2

\* the float results that are not numbers (inf, -inf, nan) are one value,
\* and every operation on it gives it again
NonFinite == <<0, 0>>
IsFinite(v) == v[2] # 0

RatAdd(x, y) == Rat(x[1] * y[2] + y[1] * x[2], x[2] * y[2])
RatSub(x, y) == Rat(x[1] * y[2] - y[1] * x[2], x[2] * y[2])

\* x / y on floats: a division by zero gives inf or nan and a warning
np_divide(x, y) ==
    CHOOSE r \in {IF ~IsFinite(a) \/ ~IsFinite(b) \/ b[1] = 0 THEN NonFinite
                  ELSE Rat(a[1] * b[2], a[2] * b[1]) : a \in {x}, b \in {y}} : TRUE

\* x * y and x - y on floats
np_multiply(x, y) ==
    CHOOSE r \in {IF ~IsFinite(a) \/ ~IsFinite(b) THEN NonFinite ELSE RatMul(a, b) :
                      a \in {x}, b \in {y}} : TRUE
np_subtract(x, y) ==
    CHOOSE r \in {IF ~IsFinite(a) \/ ~IsFinite(b) THEN NonFinite ELSE RatSub(a, b) :
                      a \in {x}, b \in {y}} : TRUE

\* the assignment x[i, j] = v: an array of integers keeps the integer
\* part of the float v (rounded towards zero), an array of floats keeps v
setitem(dtype, v) ==
    IF dtype = "float" \/ ~IsFinite(v) THEN v
    ELSE IF v[1] >= 0 THEN <<v[1] \div v[2], 1>>
    ELSE <<-((-v[1]) \div v[2]), 1>>

\* the rows of the transpose of an array
Transpose(rows) ==
    [j \in 1..Len(rows[1]) |-> [i \in 1..Len(rows) |-> rows[i][j]]]

\* _create_array(a)[0]: np.array(a).T for a (nested) list, a itself for
\* an ndarray; the entries are kept as exact numbers
create_array(a) ==
    LET rows == [i \in 1..Len(a.data) |->
                    [j \in 1..Len(a.data[i]) |-> <<a.data[i][j], 1>>]]
    IN  IF a.kind = "list" THEN Transpose(rows) ELSE rows

\* np.eye(n) and np.zeros((n, n))
np_eye(n) == [i \in 1..n |-> [j \in 1..n |-> IF i = j THEN <<1, 1>> ELSE <<0, 1>>]]
np_zeros(n) == [i \in 1..n |-> [j \in 1..n |-> <<0, 1>>]]

\* the pass k of the outer loop of lu on the frame f: the new l, u and x
lu_l(f) ==
    [i \in 1..f.n |-> [j \in 1..f.n |->
        IF j = f.k /\ i > f.k THEN np_divide(f.x[i][f.k], f.x[f.k][f.k])
        ELSE f.l[i][j]]]

lu_u(f) ==
    [i \in 1..f.n |-> [j \in 1..f.n |->
        IF i = f.k /\ j >= f.k THEN f.x[f.k][j] ELSE f.u[i][j]]]

lu_x(f) ==
    [i \in 1..f.n |-> [j \in 1..f.n |->
        IF i > f.k /\ j > f.k
        THEN setitem(f.dtype,
                     np_subtract(f.x[i][j], np_multiply(lu_l(f)[i][f.k], lu_u(f)[f.k][j])))
        ELSE f.x[i][j]]]

\* the matrices that are tried: nested lists and ndarrays of integers and
\* of floats with integer values
Entries == (-MaxEntry)..MaxEntry
MatrixData == UNION {[1..n -> [1..m -> Entries]] : n \in 1..MaxDim, m \in 1..MaxDim}
LuCalls == [fn : {"lu"},
            a : [kind : {"list", "ndarray"}, dtype : {"int", "float"}, data : MatrixData]]

LuInit ==
    /\ BotInit
    /\ call \in LuCalls
    /\ frame = [pc |-> "call"]
    /\ ret = NoRet

\* lu up to the loop: the copy of the array, the test of its shape and
\* the initial l and u
lu_call ==
    /\ call.fn = "lu"
    /\ frame.pc = "call"
    /\ LET x == create_array(call.a)
           n == Len(x)
           m == Len(x[1])
       IN  IF n # m
           THEN /\ frame' = [pc |-> "raised"]
                /\ ret' = Raise("ValueError")
           ELSE /\ frame' = [pc |-> "lu", k |-> 1, n |-> n, dtype |-> call.a.dtype,
                             x |-> x, l |-> np_eye(n), u |-> np_zeros(n)]
                /\ ret' = ret
    /\ UNCHANGED <<call, botvars>>

\* one pass of "for k in np.arange(n)", or the return after the last
lu_step ==
    /\ frame.pc = "lu"
    /\ IF frame.k <= frame.n
       THEN /\ frame' = [frame EXCEPT !.k = frame.k + 1, !.l = lu_l(frame),
                                      !.u = lu_u(frame), !.x = lu_x(frame)]
            /\ ret' = ret
       ELSE /\ frame' = [pc |-> "done"]
            /\ ret' = Value([l |-> frame.l, u |-> frame.u])
    /\ UNCHANGED <<call, botvars>>

LuNext == lu_call \/ lu_step

LuSpec == LuInit /\ [][LuNext]_vars

\* the sum of x[1] * y[1], ..., x[n] * y[n]
RECURSIVE DotProduct(_, _, _)
DotProduct(x, y, n) ==
    IF n = 0 THEN <<0, 1>>
    ELSE RatAdd(DotProduct(x, y, n - 1), RatMul(x[n], y[n]))

\* the product of two n x n matrices of finite entries
MatMul(a, b) ==
    [i \in 1..Len(a) |-> [j \in 1..Len(a) |->
        DotProduct(a[i], [k \in 1..Len(a) |-> b[k][j]], Len(a))]]

\* the array lu works on is square
LuSquare == Len(create_array(call.a)) = Len(create_array(call.a)[1])

\* C15: for every square input lu returns L with ones on the diagonal and
\* zeros above it and U with zeros below the diagonal, and L.U equals the
\* input exactly whenever no pivot u[k, k] is zero; a non-square input is
\* rejected with ValueError before any elimination step
C15_LuDecomposition ==
    call.fn = "lu" =>
        /\ ~LuSquare => (frame.pc \in {"call", "raised"}
                           /\ (frame.pc = "raised" => ret = Raise("ValueError")))
        /\ LuSquare => frame.pc # "raised"
        /\ frame.pc = "done" =>
              LET l == ret.value.l
                  u == ret.value.u
                  n == Len(l)
              IN  /\ \A i \in 1..n : l[i][i] = <<1, 1>>
                  /\ \A i \in 1..n : \A j \in (i + 1)..n :
                         l[i][j] = <<0, 1>> /\ u[j][i] = <<0, 1>>
                  /\ (\A k \in 1..n : IsFinite(u[k][k]) /\ u[k][k][1] # 0)
                         => MatMul(l, u) = create_array(call.a)

\* ---------------------------------------------------------------------
\* mathpy.numerical.roots: newtonraph, bisection, secant
\* ---------------------------------------------------------------------

\* the largest iteration cap n of a call
MaxCap == 3

np_add(x, y) ==
    CHOOSE r \in {IF ~IsFinite(a) \/ ~IsFinite(b) THEN NonFinite ELSE RatAdd(a, b) :
                      a \in {x}, b \in {y}} : TRUE

\* abs(x) and x < y on finite numbers
RatAbs(x) == <<Abs(x[1]), x[2]>>
RatLess(x, y) == x[1] * y[2] < y[1] * x[2]

\* np.sign(x)
np_sign(x) == IF x[1] > 0 THEN 1 ELSE IF x[1] < 0 THEN -1 ELSE 0

\* the functions that are passed as f: the polynomials
\* c[1] + c[2] * x + c[3] * x^2, and an object that is not callable
Polynomial(c) == [callable |-> TRUE, coef |-> c]
NotCallable == [callable |-> FALSE, coef |-> <<0, 0, 0>>]

\* f(x)
Eval(f, x) ==
    CHOOSE r \in {np_add(np_add(<<f.coef[1], 1>>, np_multiply(<<f.coef[2], 1>>, v)),
                         np_multiply(<<f.coef[3], 1>>, np_multiply(v, v))) :
                      v \in {x}} : TRUE

\* diff(f(x)).evalf(subs={x: x0})
EvalDiff(f, x0) ==
    np_add(<<f.coef[2], 1>>, np_multiply(<<2 * f.coef[3], 1>>, x0))

\* "for i in np.arange(n)" runs the body for i = 0, ..., n
arange_inclusive(i, n) == i <= n

\* "for i in np.arange(n)" runs the body for i = 0, ..., n - 1
arange(i, n) == i < n

\* raise e(msg)
RaiseMsg(e, msg) == [kind |-> "raise", exc |-> e, msg |-> msg]

\* the record root(approx, iter, count)
root(approx, iter, count) == [approx |-> approx, iter |-> iter, count |-> count]

RootFunctions ==
    {Polynomial(<<-2, 0, 1>>), Polynomial(<<-1, 1, 0>>), Polynomial(<<1, 0, 1>>),
     NotCallable}
RootPoints == {<<0, 1>>, <<1, 1>>, <<2, 1>>}
RootTols == {<<1, 2>>, <<1, 1000>>}
RootCaps == 0..MaxCap

RootCalls ==
    [fn : {"newtonraph"}, f : RootFunctions, x0 : RootPoints,
     tol : RootTols, n : RootCaps]
    \cup [fn : {"bisection"}, f : RootFunctions, a : RootPoints, b : RootPoints,
          tol : RootTols, n : RootCaps]
    \cup [fn : {"secant"}, f : RootFunctions, x0 : RootPoints, x1 : RootPoints,
          tol : RootTols, n : RootCaps]

RootInit ==
    /\ BotInit
    /\ call \in RootCalls
    /\ frame = [pc |-> "call", i |-> 0]
    /\ ret = NoRet

\* every root finder begins with the test callable(f)
root_not_callable ==
    /\ call.fn \in {"newtonraph", "bisection", "secant"}
    /\ frame.pc = "call"
    /\ ~call.f.callable
    /\ frame' = [pc |-> "raised", i |-> 0]
    /\ ret' = RaiseMsg("TypeError", "f must be a function with one parameter (variable)")
    /\ UNCHANGED <<call, botvars>>

\* newtonraph up to the loop: the return of fx0 when f(x0) == 0.0
newtonraph_call ==
    /\ call.fn = "newtonraph"
    /\ frame.pc = "call"
    /\ call.f.callable
    /\ LET fx0 == Eval(call.f, call.x0)
       IN  IF fx0 = <<0, 1>>
           THEN /\ frame' = [pc |-> "done", i |-> 0]
                /\ ret' = Value(fx0)
           ELSE /\ frame' = [pc |-> "newtonraph", i |-> 0, x0 |-> call.x0, k |-> <<>>]
                /\ ret' = ret
    /\ UNCHANGED <<call, botvars>>

\* one pass of the loop of newtonraph, or the raise after the loop; a
\* division by a zero derivative gives a value that is no number, for which
\* the test abs(x1 - x0) < tol is false or itself raises TypeError
newtonraph_step ==
    /\ frame.pc = "newtonraph"
    /\ UNCHANGED <<call, botvars>>
    /\ IF arange(frame.i, call.n)
       THEN LET dx == EvalDiff(call.f, frame.x0)
                x1 == np_subtract(frame.x0, np_divide(Eval(call.f, frame.x0), dx))
                k == Append(frame.k, x1)
            IN  IF IsFinite(x1) /\ IsFinite(frame.x0)
                THEN IF RatLess(RatAbs(RatSub(x1, frame.x0)), call.tol)
                     THEN /\ frame' = [pc |-> "done", i |-> frame.i + 1]
                          /\ ret' = Value(root(k[frame.i + 1], k, Len(k)))
                     ELSE /\ frame' = [frame EXCEPT !.i = frame.i + 1, !.x0 = x1, !.k = k]
                          /\ ret' = ret
                ELSE \/ /\ frame' = [frame EXCEPT !.i = frame.i + 1, !.x0 = x1, !.k = k]
                        /\ ret' = ret
                     \/ /\ frame' = [pc |-> "raised", i |-> frame.i + 1]
                        /\ ret' = RaiseMsg("TypeError", "Invalid comparison")
       ELSE /\ frame' = [pc |-> "raised", i |-> frame.i]
            /\ ret' = RaiseMsg("ValueError", "Iteration limit exceeded")

\* bisection up to the loop: the test of the signs of f(a) and f(b)
bisection_call ==
    /\ call.fn = "bisection"
    /\ frame.pc = "call"
    /\ call.f.callable
    /\ LET fa == np_sign(Eval(call.f, call.a))
           fb == np_sign(Eval(call.f, call.b))
       IN  IF (fa < 0 /\ fb < 0) \/ (fa > 0 /\ fb > 0)
           THEN /\ frame' = [pc |-> "raised", i |-> 0]
                /\ ret' = RaiseMsg("ValueError",
                              "signs of function evaluated at points a and b must differ")
           ELSE /\ frame' = [pc |-> "bisection", i |-> 0, a |-> call.a, b |-> call.b,
                             k |-> <<>>]
                /\ ret' = ret
    /\ UNCHANGED <<call, botvars>>

\* one pass of the loop of bisection, or the raise after the loop
bisection_step ==
    /\ frame.pc = "bisection"
    /\ UNCHANGED <<call, botvars>>
    /\ IF arange(frame.i, call.n)
       THEN LET c == RatMul(RatAdd(frame.a, frame.b), <<1, 2>>)
                k == Append(frame.k, c)
            IN  IF \/ Eval(call.f, c) = <<0, 1>>
                   \/ RatLess(RatMul(RatSub(frame.b, frame.a), <<1, 2>>), call.tol)
                THEN /\ frame' = [pc |-> "done", i |-> frame.i + 1]
                     /\ ret' = Value(root(c, k, Len(k)))
                ELSE /\ frame' =
                          IF np_sign(Eval(call.f, c)) = np_sign(Eval(call.f, frame.a))
                          THEN [frame EXCEPT !.i = frame.i + 1, !.a = c, !.k = k]
                          ELSE [frame EXCEPT !.i = frame.i + 1, !.b = c, !.k = k]
                     /\ ret' = ret
       ELSE /\ frame' = [pc |-> "raised", i |-> frame.i]
            /\ ret' = RaiseMsg("ValueError", "Iteration limit exceeded without convergence")

\* secant up to the loop
secant_call ==
    /\ call.fn = "secant"
    /\ frame.pc = "call"
    /\ call.f.callable
    /\ frame' = [pc |-> "secant", i |-> 0, x0 |-> call.x0, x1 |-> call.x1, k |-> <<>>]
    /\ ret' = ret
    /\ UNCHANGED <<call, botvars>>

\* one pass of the loop of secant, or the raise after the loop; both
\* divisions are divisions of Python floats, which raise ZeroDivisionError
secant_step ==
    /\ frame.pc = "secant"
    /\ UNCHANGED <<call, botvars>>
    /\ IF arange(frame.i, call.n)
       THEN LET fx0 == Eval(call.f, frame.x0)
                fx1 == Eval(call.f, frame.x1)
            IN  IF frame.x1 = frame.x0 \/ fx1 = fx0
                THEN /\ frame' = [pc |-> "raised", i |-> frame.i + 1]
                     /\ ret' = RaiseMsg("ZeroDivisionError", "float division by zero")
                ELSE LET slope == np_divide(RatSub(fx1, fx0), RatSub(frame.x1, frame.x0))
                         x2 == RatSub(frame.x1, np_divide(fx1, slope))
                         k == Append(frame.k, x2)
                     IN  IF RatLess(RatAbs(RatSub(x2, frame.x1)), call.tol)
                         THEN /\ frame' = [pc |-> "done", i |-> frame.i + 1]
                              /\ ret' = Value(root(x2, k, Len(k)))
                         ELSE /\ frame' = [frame EXCEPT !.i = frame.i + 1,
                                               !.x0 = frame.x1, !.x1 = x2, !.k = k]
                              /\ ret' = ret
       ELSE /\ frame' = [pc |-> "raised", i |-> frame.i]
            /\ ret' = RaiseMsg("ValueError", "Iteration limit exceeded without convergence")

RootNext ==
    \/ root_not_callable
    \/ newtonraph_call
    \/ newtonraph_step
    \/ bisection_call
    \/ bisection_step
    \/ secant_call
    \/ secant_step

RootSpec == RootInit /\ [][RootNext]_vars

\* the interpreter runs a call until it returns or raises
RootFairSpec == RootSpec /\ WF_vars(RootNext)

\* the call is one of the three root finders
RootCall == call.fn \in {"newtonraph", "bisection", "secant"}

\* the loop of the call is running
InRootLoop == RootCall /\ frame.pc = call.fn

\* the call raised the error of the iteration limit
IterationLimitExceeded ==
    /\ frame.pc = "raised"
    /\ ret.exc = "ValueError"
    /\ ret.msg \in {"Iteration limit exceeded",
                    "Iteration limit exceeded without convergence"}

\* the call returned a record
ReturnedRecord == frame.pc = "done" /\ ~(call.fn = "newtonraph" /\ frame.i = 0)

\* the body of the loop ran at most n times; a returned record has
\* count = len(iter) <= n and approx = iter[-1]; the iteration limit is
\* only raised after n passes
C13_State ==
    RootCall =>
        /\ frame.i <= call.n
        /\ InRootLoop => Len(frame.k) = frame.i
        /\ ReturnedRecord =>
              /\ ret.value.count = Len(ret.value.iter)
              /\ ret.value.count = frame.i
              /\ ret.value.count <= call.n
              /\ ret.value.count >= 1
              /\ ret.value.approx = ret.value.iter[Len(ret.value.iter)]
        /\ IterationLimitExceeded => frame.i = call.n

\* after n passes without convergence the next step raises the error of
\* the iteration limit and returns no record
C13_CapReached ==
    (InRootLoop /\ frame.i = call.n) => IterationLimitExceeded'

\* C13: newtonraph, bisection and secant with iteration cap n run the loop
\* body at most n times; a returned record has count = length(iter) <= n
\* and approx = the last element of iter; when n passes end without a
\* convergent iterate the call raises the iteration-limit ValueError
\* instead of returning a record; every call ends
C13_IterationCap ==
    /\ []C13_State
    /\ [][C13_CapReached]_vars
    /\ [](RootCall => <>(frame.pc \in {"done", "raised"}))

\* a call of secant that ran n >= 2 passes without convergence and raised
\* the iteration-limit error
C13_Witness ==
    /\ call.fn = "secant"
    /\ call.n >= 2
    /\ frame.i = call.n
    /\ IterationLimitExceeded

\* ---------------------------------------------------------------------
\* Properties of isequalset, cartesianproduct, ndifference and nintersect
\* ---------------------------------------------------------------------

\* C21: isequalset(b, *args) returns True if and only if the receiver, b
\* and every extra argument have exactly the same members, whatever the
\* order and the repetitions in the lists
C21_IsEqualSet ==
    (call.fn = "isequalset" /\ frame.pc = "done") =>
        (ret.value <=> (/\ SelfElements = Range(call.b)
                        /\ \A i \in DOMAIN call.args : ArgElements(i) = SelfElements))

\* C22: cartesianproduct returns a list with exactly one entry per ordered
\* pair (element of A, element of B), |A|.|B| entries in all, and every
\* entry is a set of exactly two elements
C22_CartesianProduct ==
    (call.fn = "cartesianproduct" /\ frame.pc = "done") =>
        /\ Len(ret.value) = Cardinality(SelfElements) * Cardinality(Range(call.b))
        /\ \A x \in SelfElements : \A y \in Range(call.b) :
               \E n \in DOMAIN ret.value : ret.value[n] = {x, y}
        /\ \A n \in DOMAIN ret.value : Cardinality(ret.value[n]) = 2

\* C24: ndifference(b, *args) returns exactly the elements of the receiver
\* that are neither in b nor in any extra argument, for a Set instance and
\* for a raw list, with or without repeated entries, as receiver
C24_NDifference ==
    (call.fn = "ndifference" /\ frame.pc = "done") =>
        ret.value = {e \in SelfElements \ Range(call.b) :
                         \A i \in DOMAIN call.args : e \notin ArgElements(i)}

MaxPts == 3

\* the values the entries of x and y are drawn from
DiffValues == {0, 1, 3}

\* _create_array(x)[0] of a flat list: np.array(x).T, the entries as numbers
create_vector(a) == [i \in 1..Len(a) |-> <<a[i], 1>>]

\* 'f(' + str(x[i]) + ')': the text of a number determines the number
key(v) == <<"f", v>>

\* fdx[k] = v on a dict: a later assignment to the same key overwrites
dict_setitem(d, k, v) ==
    [kk \in DOMAIN d \cup {k} |-> IF kk = k THEN v ELSE d[kk]]

\* the loop of forward_difference from index i on (i counts from 0):
\* fdx['f(x[i])'] = (y[i - 1] - y[i]) / (x[i - 1] - x[i])
RECURSIVE forward_loop(_, _, _, _)
forward_loop(x, y, fdx, i) ==
    IF ~arange(i, Len(x)) THEN fdx
    ELSE forward_loop(x, y,
             dict_setitem(fdx, key(x[i + 1]),
                 np_divide(np_subtract(y[i], y[i + 1]),
                           np_subtract(x[i], x[i + 1]))),
             i + 1)

forward_difference(x0, y0) ==
    LET x == create_vector(x0)
        y == create_vector(y0)
    IN  IF Len(x) # Len(y)
        THEN RaiseMsg("ValueError", "x and y must be the same length")
        ELSE IF Len(y) < 2 THEN Raise("IndexError")
        ELSE Value(forward_loop(x, y,
                 dict_setitem(<<>>, key(x[1]),
                     np_divide(np_subtract(y[2], y[1]),
                               np_subtract(x[2], x[1]))),
                 1))

\* the loop of backward_difference from index i on:
\* fdx['f(x[i - 1])'] = (y[i] - y[i - 1]) / (x[i] - x[i - 1])
RECURSIVE backward_loop(_, _, _, _)
backward_loop(x, y, fdx, i) ==
    IF ~arange(i, Len(x)) THEN fdx
    ELSE backward_loop(x, y,
             dict_setitem(fdx, key(x[i]),
                 np_divide(np_subtract(y[i + 1], y[i]),
                           np_subtract(x[i + 1], x[i]))),
             i + 1)

\* x[n - 2] of a one-entry vector is x[-1], its only entry, whose key the
\* empty loop has not set; of an empty vector it is out of range
backward_difference(x0, y0) ==
    LET x == create_vector(x0)
        y == create_vector(y0)
        n == Len(x)
    IN  IF Len(x) # Len(y)
        THEN RaiseMsg("ValueError", "x and y must be the same length")
        ELSE IF n = 0 THEN Raise("IndexError")
        ELSE IF n = 1 THEN Raise("KeyError")
        ELSE LET fdx == backward_loop(x, y, <<>>, 1)
             IN  Value(dict_setitem(fdx, key(x[n]), fdx[key(x[n - 1])]))

\* the textbook centred quotient (y[i + 1] - y[i - 1]) / (x[i + 1] - x[i - 1])
\* at the interior points
RECURSIVE central_loop_centred(_, _, _, _)
central_loop_centred(x, y, fdx, i) ==
    IF ~arange(i, Len(x)) THEN fdx
    ELSE central_loop_centred(x, y,
             dict_setitem(fdx, key(x[i + 1]),
                 IF i + 2 <= Len(x)
                 THEN np_divide(np_subtract(y[i + 2], y[i]),
                                np_subtract(x[i + 2], x[i]))
                 ELSE np_divide(np_subtract(y[i + 1], y[i]),
                                np_subtract(x[i + 1], x[i]))),
             i + 1)

\* the loop of central_difference from index i on: fdx['f(x[i])'] =
\* ((y[i] - y[i - 1]) - (y[i - 1] - y[i])) / (2 * (x[i] - x[i - 1]))
RECURSIVE central_loop(_, _, _, _)
central_loop(x, y, fdx, i) ==
    IF ~arange(i, Len(x)) THEN fdx
    ELSE central_loop(x, y,
             dict_setitem(fdx, key(x[i + 1]),
                 np_divide(np_subtract(np_subtract(y[i + 1], y[i]),
                                       np_subtract(y[i], y[i + 1])),
                           np_multiply(<<2, 1>>,
                                       np_subtract(x[i + 1], x[i])))),
             i + 1)

central_difference(x0, y0) ==
    LET x == create_vector(x0)
        y == create_vector(y0)
    IN  IF Len(x) # Len(y)
        THEN RaiseMsg("ValueError", "x and y must be the same length")
        ELSE IF Len(y) < 2 THEN Raise("IndexError")
        ELSE Value(central_loop(x, y,
                 dict_setitem(<<>>, key(x[1]),
                     np_divide(np_subtract(np_subtract(y[2], y[1]),
                                           np_subtract(y[1], y[2])),
                               np_multiply(<<2, 1>>,
                                           np_subtract(x[2], x[1])))),
                 1))

\* the data vectors that are tried
DiffLists == UNION {[1..n -> DiffValues] : n \in 0..MaxPts}

DiffFunctions ==
    {"forward_difference", "backward_difference", "central_difference"}

DiffCalls == [fn : DiffFunctions, x : DiffLists, y : DiffLists]

DiffInit ==
    /\ BotInit
    /\ call \in DiffCalls
    /\ frame = [pc |-> "call"]
    /\ ret = NoRet

forward_difference_call ==
    /\ call.fn = "forward_difference"
    /\ frame.pc = "call"
    /\ frame' = [pc |-> "done"]
    /\ ret' = forward_difference(call.x, call.y)
    /\ UNCHANGED <<call, botvars>>

backward_difference_call ==
    /\ call.fn = "backward_difference"
    /\ frame.pc = "call"
    /\ frame' = [pc |-> "done"]
    /\ ret' = backward_difference(call.x, call.y)
    /\ UNCHANGED <<call, botvars>>

central_difference_call ==
    /\ call.fn = "central_difference"
    /\ frame.pc = "call"
    /\ frame' = [pc |-> "done"]
    /\ ret' = central_difference(call.x, call.y)
    /\ UNCHANGED <<call, botvars>>

DiffNext ==
    \/ forward_difference_call
    \/ backward_difference_call
    \/ central_difference_call

DiffSpec == DiffInit /\ [][DiffNext]_vars

\* the quotient (y[j] - y[i]) / (x[j] - x[i]) of the data of the call,
\* i and j counting from 0
Slope(i, j) ==
    Rat(call.y[j + 1] - call.y[i + 1], call.x[j + 1] - call.x[i + 1])

\* the case the claims on the three functions are about: vectors of equal
\* length n >= 2, the entries of x distinct
DiffCase ==
    /\ call.fn \in DiffFunctions
    /\ frame.pc = "done"
    /\ Len(call.x) = Len(call.y)
    /\ Len(call.x) >= 2
    /\ \A i, j \in DOMAIN call.x : i # j => call.x[i] # call.x[j]

\* the entry of the returned mapping for x[i], i counting from 0
Estimate(i) == ret.value[key(<<call.x[i + 1], 1>>)]

\* C23: for equal-length inputs (x distinct, n >= 2) forward_difference
\* maps every x[i], i < n - 1, to (y[i+1] - y[i]) / (x[i+1] - x[i]) and
\* backward_difference maps every x[i], i >= 1, to
\* (y[i] - y[i-1]) / (x[i] - x[i-1]), the boundary point reusing the nearest
\* interior estimate; inputs of different lengths fail with ValueError
C23_OneSidedDifferences ==
    LET n == Len(call.x)
    IN  /\ (DiffCase /\ call.fn = "forward_difference") =>
               /\ ret.kind = "value"
               /\ \A i \in 0..(n - 2) : Estimate(i) = Slope(i, i + 1)
               /\ Estimate(n - 1) = Slope(n - 2, n - 1)
        /\ (DiffCase /\ call.fn = "backward_difference") =>
               /\ ret.kind = "value"
               /\ \A i \in 1..(n - 1) : Estimate(i) = Slope(i - 1, i)
               /\ Estimate(0) = Slope(0, 1)
        /\ (/\ call.fn \in {"forward_difference", "backward_difference"}
            /\ frame.pc = "done"
            /\ Len(call.x) # Len(call.y))
               => (ret.kind = "raise" /\ ret.exc = "ValueError")

C25_RootAtGuess ==
    (/\ call.fn = "newtonraph"
     /\ call.f.callable
     /\ Eval(call.f, call.x0) = <<0, 1>>
     /\ frame.pc # "call")
        => /\ frame.pc = "done"
           /\ frame.i = 0
           /\ ret = Value(call.x0)

\* ---------------------------------------------------------------------
\* mathpy.linalgebra.norm: norm and the matrix norms of _MatrixNorm
\* ---------------------------------------------------------------------

\* the table matrix_norm of norm, for the orders given as text or as None
matrix_norm ==
    [o \in {None, "fro", "frobenius", "1", "inf"} |->
        CASE o = "1" -> "norm1"
          [] o = "inf" -> "norminf"
          [] OTHER -> "frobenius"]

\* self.n, self.m = self.x.shape: n is the number of rows and m the number
\* of columns of the array
shape_n(x) == Len(x)
shape_m(x) == Len(x[1])

\* np.sum of a vector of integers
RECURSIVE np_sum(_)
np_sum(v) == IF v = <<>> THEN 0 ELSE v[1] + np_sum(Tail(v))

\* np.max of a list of integers
np_max(l) == CHOOSE v \in Range(l) : \A w \in Range(l) : w <= v

\* _MatrixNorm.norm1: the largest sum of np.absolute(self.x[:, i]), i < m
norm1(x) ==
    np_max([i \in 1..shape_m(x) |->
               np_sum([r \in 1..Len(x) |-> Abs(x[r][i])])])

\* _MatrixNorm.norminf: the largest sum of np.absolute(self.x[i, :]), i < n
norminf(x) ==
    np_max([i \in 1..shape_n(x) |->
               np_sum([c \in 1..Len(x[i]) |-> Abs(x[i][c])])])

\* the orders that are tried: those of the table and one that is not in it
NormOrders == DOMAIN matrix_norm \cup {"nuc"}

NormCalls == [fn : {"norm"}, x : MatrixData, order : NormOrders]

NormInit ==
    /\ BotInit
    /\ call \in NormCalls
    /\ frame = [pc |-> "call", i |-> 0, j |-> 0, f |-> 0, reads |-> <<>>]
    /\ ret = NoRet

\* norm up to the call of the method: an order that is not a key of the
\* table raises KeyError, which the handler for ValueError does not catch;
\* norm1 and norminf return at once, float(v()) being the number itself
norm_call ==
    /\ call.fn = "norm"
    /\ frame.pc = "call"
    /\ IF call.order \notin DOMAIN matrix_norm
       THEN /\ frame' = [frame EXCEPT !.pc = "raised"]
            /\ ret' = Raise("KeyError")
       ELSE CASE matrix_norm[call.order] = "norm1" ->
                 /\ frame' = [frame EXCEPT !.pc = "done"]
                 /\ ret' = Value(<<norm1(call.x), 1>>)
              [] matrix_norm[call.order] = "norminf" ->
                 /\ frame' = [frame EXCEPT !.pc = "done"]
                 /\ ret' = Value(<<norminf(call.x), 1>>)
              [] OTHER ->
                 /\ frame' = [frame EXCEPT !.pc = "frobenius"]
                 /\ ret' = ret
    /\ UNCHANGED <<call, botvars>>

\* one pass of the inner loop of frobenius: i runs over np.arange(self.m)
\* and j over np.arange(self.n), and the entry read is self.x[i, j], i as
\* the row and j as the column; an index that is not in the array raises
\* IndexError. reads lists the indices read so far.
frobenius_step ==
    /\ frame.pc = "frobenius"
    /\ arange(frame.i, shape_m(call.x))
    /\ LET i == frame.i
           j == frame.j
       IN  IF i >= Len(call.x) \/ j >= Len(call.x[1])
           THEN /\ frame' = [frame EXCEPT !.pc = "raised"]
                /\ ret' = Raise("IndexError")
           ELSE /\ frame' = [frame EXCEPT
                       !.f = @ + Abs(call.x[i + 1][j + 1]) * Abs(call.x[i + 1][j + 1]),
                       !.reads = Append(@, <<i, j>>),
                       !.i = IF arange(j + 1, shape_n(call.x)) THEN i ELSE i + 1,
                       !.j = IF arange(j + 1, shape_n(call.x)) THEN j + 1 ELSE 0]
                /\ ret' = ret
    /\ UNCHANGED <<call, botvars>>

\* return np.sqrt(f) once the loops are over
frobenius_return ==
    /\ frame.pc = "frobenius"
    /\ ~arange(frame.i, shape_m(call.x))
    /\ frame' = [frame EXCEPT !.pc = "done"]
    /\ ret' = Value(np_sqrt(<<frame.f, 1>>))
    /\ UNCHANGED <<call, botvars>>

NormNext ==
    \/ norm_call
    \/ frobenius_step
    \/ frobenius_return

NormSpec == NormInit /\ [][NormNext]_vars

\* the sum of the squares of the first k entries of x, row by row
RECURSIVE SquaresUpTo(_, _)
SquaresUpTo(x, k) ==
    IF k = 0 THEN 0
    ELSE LET e == x[((k - 1) \div Len(x[1])) + 1][((k - 1) % Len(x[1])) + 1]
         IN  e * e + SquaresUpTo(x, k - 1)

\* the indices of the entries of the matrix of the call, counting from 0
MatrixIndices == (0..(Len(call.x) - 1)) \X (0..(Len(call.x[1]) - 1))

\* C26: for a matrix of any shape, norm with order None, 'fro' or
\* 'frobenius' returns the square root of the sum of the squares of all the
\* entries, reads every entry exactly once and reads no index outside the
\* matrix
C26_FrobeniusAnyShape ==
    (call.fn = "norm" /\ call.order \in {None, "fro", "frobenius"}) =>
        /\ \A n \in DOMAIN frame.reads : frame.reads[n] \in MatrixIndices
        /\ ~(ret.kind = "raise" /\ ret.exc = "IndexError")
        /\ frame.pc = "done" =>
              /\ ret = Value(np_sqrt(<<SquaresUpTo(call.x,
                                          Len(call.x) * Len(call.x[1])), 1>>))
              /\ Len(frame.reads) = Cardinality(MatrixIndices)
              /\ \A p \in MatrixIndices :
                     \E n \in DOMAIN frame.reads : frame.reads[n] = p

\* ---------------------------------------------------------------------
\* mathpy.linalgebra.matrix: issymmetric, isnegativedefinite and
\* isnegativesemidefinite
\* ---------------------------------------------------------------------

\* np.allclose(a, b) with the default tolerances, for arrays of integers:
\* |a - b| <= 1e-8 + 1e-5 * |b| for every entry, written without fractions
np_allclose(a, b) ==
    \A i \in DOMAIN a : \A j \in DOMAIN a[i] :
        100000000 * Abs(a[i][j][1] - b[i][j][1]) <= 1 + 1000 * Abs(b[i][j][1])

issymmetric(x0) ==
    LET x == create_array(x0)
    IN  IF Len(x) # Len(x[1]) THEN FALSE
        ELSE IF np_allclose(Transpose(x), x) = FALSE THEN FALSE
        ELSE TRUE

\* an eigenvalue of a symmetric matrix of order 1 or 2 with trace tr and
\* determinant det: the root (tr + sqrt(tr^2 - 4 det)) / 2 or
\* (tr - sqrt(tr^2 - 4 det)) / 2 of the characteristic polynomial, kept
\* exact; a matrix (a) of order 1 has the double root of t^2 - 2at + a^2
Eigenvalue(tr, det, branch) == [tr |-> tr, det |-> det, branch |-> branch]

\* the sign of an eigenvalue: what a comparison of it with 0 sees
EigSign(e) ==
    LET d == IF e.det > 0 THEN 1 ELSE IF e.det = 0 THEN 0 ELSE -1
    IN  IF e.branch = "+"
        THEN (IF e.tr > 0 THEN 1 ELSE -d)
        ELSE (IF e.tr < 0 THEN -1 ELSE d)

\* np.linalg.eigvals(x) of a symmetric matrix of order 1 or 2: the
\* eigenvalues in one of the orders the library may return them in
eigvals(x) ==
    IF Len(x) = 1
    THEN {<<Eigenvalue(2 * x[1][1][1], x[1][1][1] * x[1][1][1], "+")>>}
    ELSE LET tr == x[1][1][1] + x[2][2][1]
             det == x[1][1][1] * x[2][2][1] - x[1][2][1] * x[2][1][1]
         IN  {<<Eigenvalue(tr, det, "+"), Eigenvalue(tr, det, "-")>>,
              <<Eigenvalue(tr, det, "-"), Eigenvalue(tr, det, "+")>>}

sym_eig(x0) == eigvals(create_array(x0))

\* for i in e: if i >= 0: return False -- and return True after the loop
RECURSIVE isnegativedefinite_loop(_)
isnegativedefinite_loop(e) ==
    IF e = <<>> THEN TRUE
    ELSE IF EigSign(e[1]) >= 0 THEN FALSE
    ELSE isnegativedefinite_loop(Tail(e))

\* for i in e: if i >= 0: return False -- and return True inside the loop
\* after the test of the first eigenvalue; an empty e would fall off the
\* end and return None
isnegativesemidefinite_loop(e) ==
    IF e = <<>> THEN None
    ELSE IF EigSign(e[1]) >= 0 THEN FALSE
    ELSE TRUE

\* the matrices the tests are tried on, of order at most 2
TestMatrices ==
    UNION {[1..n -> [1..m -> Entries]] : n \in 1..2, m \in 1..2}

MatrixTests == {"issymmetric", "isnegativedefinite", "isnegativesemidefinite"}

MatrixCalls ==
    [fn : MatrixTests, x : [kind : {"list", "ndarray"}, data : TestMatrices]]

MatrixInit ==
    /\ BotInit
    /\ call \in MatrixCalls
    /\ frame = [pc |-> "call"]
    /\ ret = NoRet

issymmetric_call ==
    /\ call.fn = "issymmetric"
    /\ frame.pc = "call"
    /\ frame' = [pc |-> "done"]
    /\ ret' = Value(issymmetric(call.x))
    /\ UNCHANGED <<call, botvars>>

isnegativedefinite_call ==
    /\ call.fn = "isnegativedefinite"
    /\ frame.pc = "call"
    /\ frame' = [pc |-> "done"]
    /\ IF issymmetric(call.x) = FALSE
       THEN ret' = Value(FALSE)
       ELSE \E e \in sym_eig(call.x) : ret' = Value(isnegativedefinite_loop(e))
    /\ UNCHANGED <<call, botvars>>

isnegativesemidefinite_call ==
    /\ call.fn = "isnegativesemidefinite"
    /\ frame.pc = "call"
    /\ frame' = [pc |-> "done"]
    /\ IF issymmetric(call.x) = FALSE
       THEN ret' = Value(FALSE)
       ELSE \E e \in sym_eig(call.x) :
                ret' = Value(isnegativesemidefinite_loop(e))
    /\ UNCHANGED <<call, botvars>>

MatrixNext ==
    \/ issymmetric_call
    \/ isnegativedefinite_call
    \/ isnegativesemidefinite_call

MatrixSpec == MatrixInit /\ [][MatrixNext]_vars

\* the matrix of the call is square and equal to its transpose
SymmetricCall ==
    /\ Len(call.x.data) = Len(call.x.data[1])
    /\ \A i, j \in DOMAIN call.x.data : call.x.data[i][j] = call.x.data[j][i]

\* every eigenvalue of the symmetric matrix of the call is <= 0: its
\* diagonal entries are <= 0 and, at order 2, its determinant is >= 0
EigenvaluesNonPositive ==
    LET a == call.x.data
    IN  /\ \A i \in DOMAIN a : a[i][i] <= 0
        /\ Len(a) = 2 => a[1][1] * a[2][2] - a[1][2] * a[2][1] >= 0

\* C27: isnegativesemidefinite returns True for a symmetric matrix exactly
\* when every eigenvalue is <= 0, zero eigenvalues admitted and every
\* eigenvalue inspected, and False for a matrix that is not symmetric
C27_NegativeSemidefinite ==
    (call.fn = "isnegativesemidefinite" /\ frame.pc = "done") =>
        ret = Value(SymmetricCall /\ EigenvaluesNonPositive)

\* ---------------------------------------------------------------------
\* mathpy.stats.fa: fa and _FactorAnalysis. The arrays are kept abstract:
\* a call carries the shape of x and what its data make of the numerical
\* steps (whether np.linalg.inv fails, how many passes the communality
\* loop takes)
\* ---------------------------------------------------------------------

\* the largest number of rows and of columns of x
MaxVars == 2

\* the largest number of passes of the communality loop
MaxPasses == 2

\* the shape of _create_array(x)[0]: a nested list is transposed
create_array_shape(x) ==
    IF x.kind = "list" THEN <<x.shape[2], x.shape[1]>> ELSE x.shape

\* the methods of _FactorAnalysis that fa may look up by name
FaAlgorithms ==
    {"principal_component", "principal_factor", "iterated_principal_factor"}

\* the fields of the namedtuple when self.method is not
\* 'iterated_principal_factor'
FaFields ==
    {"loadings", "h2", "u2", "com", "proportion_loadings",
     "proportion_variance", "proportion_explained"}

\* _FactorAnalysis._return_fa_stats
return_fa_stats(method, iterations) ==
    IF method # "iterated_principal_factor"
    THEN [fields |-> FaFields]
    ELSE [fields |-> FaFields \cup {"iterations"}, iterations |-> iterations]

FaCalls ==
    [fn : {"fa"},
     x : [kind : {"list", "ndarray"}, shape : (1..MaxVars) \X (1..MaxVars)],
     factors : 0..(MaxVars + 1),
     covar : BOOLEAN,
     method : FaAlgorithms \cup {None, "maximum_likelihood"},
     singular : BOOLEAN,
     passes : 0..MaxPasses]

FaInit ==
    /\ BotInit
    /\ call \in FaCalls
    /\ frame = [pc |-> "call", method |-> None, iterations |-> 0]
    /\ ret = NoRet

\* fa up to the call of the method: the constructor tests the number of
\* factors and sets self.method = 'principal_component'; a name that is no
\* attribute returns a text; principal_component returns at once, and so
\* does principal_factor unless np.linalg.inv raises
fa_call ==
    /\ call.fn = "fa"
    /\ frame.pc = "call"
    /\ LET self_method == "principal_component"
           v == IF call.method = None THEN self_method ELSE call.method
       IN  IF call.factors > create_array_shape(call.x)[2]
           THEN /\ frame' = [frame EXCEPT !.pc = "raised"]
                /\ ret' = RaiseMsg("ValueError",
                     "number of factors cannot exceed number of observation vectors")
           ELSE IF v \notin FaAlgorithms
           THEN /\ frame' = [frame EXCEPT !.pc = "done", !.method = self_method]
                /\ ret' = StrValue("no method with name")
           ELSE IF v = "principal_component"
           THEN /\ frame' = [frame EXCEPT !.pc = "done", !.method = self_method]
                /\ ret' = Value(return_fa_stats(self_method, None))
           ELSE IF call.singular
           THEN /\ frame' = [frame EXCEPT !.pc = "raised", !.method = self_method]
                /\ ret' = Raise("LinAlgError")
           ELSE IF v = "principal_factor"
           THEN /\ frame' = [frame EXCEPT !.pc = "done", !.method = self_method]
                /\ ret' = Value(return_fa_stats(self_method, None))
           ELSE /\ frame' = [frame EXCEPT !.pc = "iterated", !.method = self_method]
                /\ ret' = ret
    /\ UNCHANGED <<call, botvars>>

\* one pass of `while err > minerr`: iterations.append(h2_new)
iterated_pass ==
    /\ frame.pc = "iterated"
    /\ frame.iterations < call.passes
    /\ frame' = [frame EXCEPT !.iterations = @ + 1]
    /\ UNCHANGED <<call, ret, botvars>>

\* after the loop: loadings is unbound when the loop made no pass;
\* otherwise _return_fa_stats is called with the builtin iter as iterations
iterated_return ==
    /\ frame.pc = "iterated"
    /\ frame.iterations = call.passes
    /\ IF frame.iterations = 0
       THEN /\ frame' = [frame EXCEPT !.pc = "raised"]
            /\ ret' = Raise("UnboundLocalError")
       ELSE /\ frame' = [frame EXCEPT !.pc = "done"]
            /\ ret' = Value(return_fa_stats(frame.method, "iter"))
    /\ UNCHANGED <<call, botvars>>

FaNext ==
    \/ fa_call
    \/ iterated_pass
    \/ iterated_return

FaSpec == FaInit /\ [][FaNext]_vars

\* the number of variables of the data of the call
Variables == create_array_shape(call.x)[2]

\* C28: with factors <= number of variables, method
\* 'iterated_principal_factor' returns a record with an 'iterations' field
\* holding the number of passes of the communality loop, and
\* 'principal_component' and 'principal_factor' return the record without
\* that field; factors > number of variables fails with ValueError for
\* every method
C28_IterationsField ==
    (call.fn = "fa" /\ frame.pc \in {"done", "raised"}) =>
        /\ (/\ call.factors <= Variables
            /\ call.method = "iterated_principal_factor"
            /\ ret.kind = "value")
               => /\ "iterations" \in ret.value.fields
                  /\ ret.value.iterations = frame.iterations
        /\ (/\ call.factors <= Variables
            /\ call.method \in {"principal_component", "principal_factor"}
            /\ ret.kind = "value")
               => "iterations" \notin ret.value.fields
        /\ call.factors > Variables
               => (ret.kind = "raise" /\ ret.exc = "ValueError")

====
